---- MODULE Spec2Model ----
(***************************************************************************)
(* Initial chunk placement planner of a sharded collection                 *)
(* (src/mongo/db/s/config/initial_split_policy.cpp).                       *)
(*                                                                         *)
(* A shard key value (BSONObj) is a sequence of elements, one per field of *)
(* the shard key pattern.  An element is a 4-tuple <<class, l2, l1, l0>>:  *)
(* class -1 is MinKey, class 1 is MaxKey and class 0 is a signed 64-bit    *)
(* integer whose magnitude is l2 * 2^42 + l1 * 2^21 + l0, the three limbs  *)
(* carrying the sign of the number.  Tuples of one class compare limb by   *)
(* limb, so the order of elements is the lexicographic order of tuples.    *)
(***************************************************************************)
EXTENDS Integers, Sequences, FiniteSets

VARIABLES
    shardKeyPattern,   \* the ShardKeyPattern: a sequence of "1" / "hashed"
    shardDocs,         \* config.shards in query order: [name, tags] records
    shuffledShardIds,  \* what getAllShardIdsShuffled returns in this build
    tags,              \* the zones (TagsType) of the collection, sorted by min
    clusterTime,       \* VectorClock cluster time
    oidCounter,        \* number of OIDs generated so far (OID::gen)
    policy,            \* the InitialSplitPolicy object, or NoPolicy
    made,              \* how the policy was asked for, and with what outcome
    numCalls,          \* createFirstChunks calls made on the policy
    result,            \* outcome of the last createFirstChunks call
    hashedArgs,        \* arguments of calculateHashedSplitPoints
    hashedOut,         \* its return value, or NotCalled
    pipelineSource     \* a PipelineDocumentSource and what its getNext returned

vars == <<shardKeyPattern, shardDocs, shuffledShardIds, tags, clusterTime,
          oidCounter, policy, made, numCalls, result, hashedArgs, hashedOut,
                   pipelineSource>>

----------------------------------------------------------------------------
(* Bounds of the model *)

\* number of shards in config.shards
MaxShards == 2
\* concrete values 1..MaxKeyVal of a range field of the shard key
MaxKeyVal == 2
\* numInitialChunks arguments 0..MaxInitialChunks
MaxInitialChunks == 3
\* calculateHashedSplitPoints is applied to 1..MaxHashedChunks
MaxHashedChunks == 12
\* createFirstChunks calls on one policy object
MaxCalls == 2
\* zones of a collection, and ranges of a shard distribution
MaxZones == 2
\* distinct split points handed to a SplitPointsBasedSplitPolicy, in a list
\* one longer
MaxSplitPoints == 3
\* numContiguousChunksPerShard 1..MaxContiguous
MaxContiguous == 2
MaxSampledChunks == 10
MaxSampleKeyVal == 4
MaxHoleKeyVal == 4
MaxDocuments == 7
MaxSamplesPerChunk == 4
MaxGetNext == 9

----------------------------------------------------------------------------
(* 64-bit integers in three limbs of 21 bits *)

\* 2^21
Limb == 2097152

\* std::numeric_limits<long long>::max() = 2^63 - 1
LLongMax == <<Limb - 1, Limb - 1, Limb - 1>>

LongZero == <<0, 0, 0>>

LongOfInt(k) == <<0, 0, k>>

LongNeg(x) == <<-x[1], -x[2], -x[3]>>

SeqLess(x, y) ==
    \E i \in 1..Len(x) :
        /\ i <= Len(y)
        /\ x[i] < y[i]
        /\ \A j \in 1..(i - 1) : x[j] = y[j]

\* x / n for 0 <= x and a divisor 0 < n < 1024 (long division by limbs)
LongDivSmall(x, n) ==
    LET q2 == x[1] \div n
        t1 == (x[1] % n) * Limb + x[2]
        q1 == t1 \div n
        t0 == (t1 % n) * Limb + x[3]
        q0 == t0 \div n
    IN <<q2, q1, q0>>

\* The exact sum and product of non-negative values: the top limb is left
\* unreduced, so a value above LLongMax shows as a top limb >= Limb.
LongAddExact(x, y) ==
    LET s0 == x[3] + y[3]
        s1 == x[2] + y[2] + (s0 \div Limb)
        s2 == x[1] + y[1] + (s1 \div Limb)
    IN <<s2, s1 % Limb, s0 % Limb>>

LongMulSmallExact(x, k) ==
    LET p0 == x[3] * k
        p1 == x[2] * k + (p0 \div Limb)
        p2 == x[1] * k + (p1 \div Limb)
    IN <<p2, p1 % Limb, p0 % Limb>>

LongOverflows(x) == x[1] >= Limb

----------------------------------------------------------------------------
(* BSON elements, shard key values and their order *)

MinKey == <<-1, 0, 0, 0>>

MaxKey == <<1, 0, 0, 0>>

NumberLong(x) == <<0, x[1], x[2], x[3]>>

\* a concrete value of a range field
KeyVal(k) == NumberLong(LongOfInt(k))

IsMinKey(e) == e[1] = -1

IsMaxKey(e) == e[1] = 1

\* BSONObj::woCompare(a, b) < 0: field by field, a proper prefix first
KeyLess(a, b) ==
    \/ \E i \in 1..Len(a) :
          /\ i <= Len(b)
          /\ SeqLess(a[i], b[i])
          /\ \A j \in 1..(i - 1) : a[j] = b[j]
    \/ /\ Len(a) < Len(b)
       /\ \A j \in 1..Len(a) : a[j] = b[j]

woCompare(a, b) == IF a = b THEN 0 ELSE IF KeyLess(a, b) THEN -1 ELSE 1

KeyLeq(a, b) == woCompare(a, b) <= 0

\* KeyPattern::globalMin / globalMax: every field MinKey / MaxKey
globalMin(pattern) == [i \in 1..Len(pattern) |-> MinKey]

globalMax(pattern) == [i \in 1..Len(pattern) |-> MaxKey]

\* KeyPattern::extendRangeBound(bound, false): the missing trailing fields
\* are filled with MinKey
extendRangeBound(pattern, bound) ==
    [i \in 1..Len(pattern) |-> IF i <= Len(bound) THEN bound[i] ELSE MinKey]

isHashedPattern(pattern) == \E i \in 1..Len(pattern) : pattern[i] = "hashed"

hasHashedPrefix(pattern) == Len(pattern) > 0 /\ pattern[1] = "hashed"

\* position of the hashed field (getHashedField)
HashedFieldIndex(pattern) ==
    CHOOSE i \in 1..Len(pattern) : pattern[i] = "hashed"

\* std::sort with SimpleBSONObjComparator's less-than, and the ordered
\* BSONObjSet: ascending, one entry per distinct key
RECURSIVE SortedInsert(_, _)
SortedInsert(s, k) ==
    IF s = <<>> THEN <<k>>
    ELSE IF KeyLess(k, Head(s)) THEN <<k>> \o s
    ELSE <<Head(s)>> \o SortedInsert(Tail(s), k)

RECURSIVE SortKeys(_)
SortKeys(s) ==
    IF s = <<>> THEN <<>> ELSE SortedInsert(SortKeys(Tail(s)), Head(s))

RECURSIVE SetInsert(_, _)
SetInsert(s, k) ==
    IF s = <<>> THEN <<k>>
    ELSE IF k = Head(s) THEN s
    ELSE IF KeyLess(k, Head(s)) THEN <<k>> \o s
    ELSE <<Head(s)>> \o SetInsert(Tail(s), k)

RECURSIVE SetInsertAll(_, _)
SetInsertAll(s, ks) ==
    IF ks = <<>> THEN s ELSE SetInsertAll(SetInsert(s, Head(ks)), Tail(ks))

SetErase(s, k) == SelectSeq(s, LAMBDA x : x # k)

Range(s) == {s[i] : i \in 1..Len(s)}

----------------------------------------------------------------------------
(* InitialSplitPolicy::calculateHashedSplitPoints *)

\* the lambda buildSplitPoint: prefix, hashed value, MinKey in later fields
buildSplitPoint(pattern, prefix, value) ==
    prefix \o <<NumberLong(value)>> \o
        [i \in 1..(Len(pattern) - HashedFieldIndex(pattern)) |-> MinKey]

\* the cursor advanced by twice the step
AdvanceCurrentTwice(st, step) ==
    [st EXCEPT !.current = LongAddExact(LongAddExact(st.current, step), step),
               !.ub = st.ub \/
                      LongOverflows(LongAddExact(LongAddExact(st.current, step), step))]

\* current += step: signed overflow is undefined behaviour, recorded in ub
AdvanceCurrent(st, step) ==
    LET sum == LongAddExact(st.current, step)
    IN [st EXCEPT !.current = sum, !.ub = st.ub \/ LongOverflows(sum)]

\* the for loop: i more iterations to go
RECURSIVE HashedLoop(_, _, _, _, _)
HashedLoop(pattern, prefix, intervalSize, st, i) ==
    IF i = 0 THEN st
    ELSE HashedLoop(pattern, prefix, intervalSize,
                    AdvanceCurrent(
                        [st EXCEPT !.splitPoints =
                            st.splitPoints \o
                            <<buildSplitPoint(pattern, prefix, st.current),
                              buildSplitPoint(pattern, prefix, LongNeg(st.current))>>],
                        intervalSize),
                    i - 1)

\* std::sort of the split points the loop produced
SortSplitPoints(st) == [splitPoints |-> SortKeys(st.splitPoints), ub |-> st.ub]

\* the body below the early return, for the interval size computed first
HashedSplitPointsFor(pattern, prefix, numInitialChunks, intervalSize) ==
    SortSplitPoints(
        HashedLoop(pattern, prefix, intervalSize,
                   IF numInitialChunks % 2 = 0
                   THEN AdvanceCurrent(
                            [splitPoints |->
                                <<buildSplitPoint(pattern, prefix, LongZero)>>,
                             current |-> LongZero,
                             ub |-> LongOverflows(intervalSize)],
                            intervalSize)
                   ELSE AdvanceCurrent(
                            [splitPoints |-> <<>>, current |-> LongZero,
                             ub |-> LongOverflows(intervalSize)],
                            LongDivSmall(intervalSize, 2)),
                   (numInitialChunks - 1) \div 2))

\* returns [splitPoints, ub]: ub when some step of the arithmetic left the
\* signed 64-bit range
calculateHashedSplitPoints(pattern, prefix, numInitialChunks) ==
    IF numInitialChunks = 1 THEN [splitPoints |-> <<>>, ub |-> FALSE]
    ELSE HashedSplitPointsFor(
            pattern, prefix, numInitialChunks,
            LongMulSmallExact(LongDivSmall(LLongMax, numInitialChunks), 2))

----------------------------------------------------------------------------
(* Shard registry, config.shards and the helpers of the anonymous namespace *)

ShardNames == <<"S1", "S2", "S3", "S4">>

ZoneNames == {"A", "B"}

\* Grid::shardRegistry()->getAllShardIds: the shards of config.shards
getAllShardIds(docs) == [i \in 1..Len(docs) |-> docs[i].name]

\* ChunkVersion({OID::gen(), validAfter}, {1, 0})
InitialVersion(epoch, validAfter) ==
    [epoch |-> epoch, timestamp |-> validAfter, major |-> 1, minor |-> 0]

\* ChunkVersion::incMinor
incMinor(version) == [version EXCEPT !.minor = version.minor + 1]

\* a chunk appended with the version left as it was
appendChunkSameVersion(out, min, max, shardId) ==
    [chunks |-> Append(out.chunks,
                       [min |-> min, max |-> max, version |-> out.version,
                        shard |-> shardId,
                        onCurrentShardSince |-> out.version.timestamp,
                        history |-> <<[validAfter |-> out.version.timestamp,
                                       shard |-> shardId]>>]),
     version |-> out.version]

\* appendChunk on the pair [chunks, version]
appendChunk(out, min, max, shardId) ==
    [chunks |-> Append(out.chunks,
                       [min |-> min, max |-> max, version |-> out.version,
                        shard |-> shardId,
                        onCurrentShardSince |-> out.version.timestamp,
                        history |-> <<[validAfter |-> out.version.timestamp,
                                       shard |-> shardId]>>]),
     version |-> incMinor(out.version)]

NoChunks(epoch, validAfter) ==
    [chunks |-> <<>>, version |-> InitialVersion(epoch, validAfter)]

TagNamesOf(zones) == {zones[i].tag : i \in 1..Len(zones)}

DocTagNames(docs) == UNION {docs[i].tags : i \in 1..Len(docs)}

\* every tag mapped to every shard of config.shards
buildTagsToShardIdsMapAllShards(docs, zones) ==
    IF zones = <<>> THEN [z \in {} |-> <<>>]
    ELSE [z \in TagNamesOf(zones) \cup DocTagNames(docs) |->
            [i \in 1..Len(docs) |-> docs[i].name]]

\* buildTagsToShardIdsMap: an entry for every tag of the list and every tag
\* a shard carries, the shards in the order of config.shards
buildTagsToShardIdsMap(docs, zones) ==
    IF zones = <<>> THEN [z \in {} |-> <<>>]
    ELSE [z \in TagNamesOf(zones) \cup DocTagNames(docs) |->
            LET carrying == SelectSeq(docs, LAMBDA d : z \in d.tags)
            IN [i \in 1..Len(carrying) |-> carrying[i].name]]

\* extractSplitPointsFromZones: the ordered set of zone bounds without
\* globalMin and globalMax; zones is <<>> for boost::none
RECURSIVE ZoneBounds(_)
ZoneBounds(zones) ==
    IF zones = <<>> THEN <<>>
    ELSE <<Head(zones).min, Head(zones).max>> \o ZoneBounds(Tail(zones))

extractSplitPointsFromZones(pattern, zones) ==
    SetErase(SetErase(SetInsertAll(<<>>, ZoneBounds(zones)),
                      globalMin(pattern)),
             globalMax(pattern))

\* buildShardIdToTagsMap: an entry for every shard of the distribution and
\* every shard of config.shards
buildShardIdToTagsMap(docs, shardDistribution) ==
    IF shardDistribution = <<>> THEN [s \in {} |-> {}]
    ELSE [s \in {shardDistribution[i].shard : i \in 1..Len(shardDistribution)}
                \cup {docs[i].name : i \in {j \in 1..Len(docs) : docs[j].tags # {}}} |->
            UNION {docs[i].tags : i \in {j \in 1..Len(docs) : docs[j].name = s}}]

\* ZoneInfo::getZoneForChunk: the zone whose range contains the chunk, ""
\* when there is none
getZoneForChunk(zones, min, max) ==
    LET holding == {i \in 1..Len(zones) :
                        KeyLeq(zones[i].min, min) /\ KeyLeq(max, zones[i].max)}
    IN IF holding = {} THEN "" ELSE zones[CHOOSE i \in holding : TRUE].tag

\* a loop that keeps the last shard of the list with the least count
RECURSIVE BestOfLastLeast(_, _, _)
BestOfLastLeast(chunkMap, shards, best) ==
    IF shards = <<>> THEN best
    ELSE BestOfLastLeast(chunkMap, Tail(shards),
                IF best = "" \/ chunkMap[Head(shards)] <= chunkMap[best]
                THEN Head(shards) ELSE best)

\* selectBestShard: [status, shard]; the first shard of the zone's list with
\* the least count
RECURSIVE BestOf(_, _, _)
BestOf(chunkMap, shards, best) ==
    IF shards = <<>> THEN best
    ELSE BestOf(chunkMap, Tail(shards),
                IF best = "" \/ chunkMap[Head(shards)] < chunkMap[best]
                THEN Head(shards) ELSE best)

selectBestShard(chunkMap, zones, zoneToShards, min, max) ==
    LET zone == getZoneForChunk(zones, min, max)
    IN IF zone \notin DOMAIN zoneToShards
       THEN [status |-> "Location4952605", shard |-> ""]
       ELSE IF zoneToShards[zone] = <<>>
       THEN [status |-> "Location4952607", shard |-> ""]
       ELSE [status |-> "OK", shard |-> BestOf(chunkMap, zoneToShards[zone], "")]

----------------------------------------------------------------------------
(* InitialSplitPolicy::generateShardCollectionInitialChunks *)

RECURSIVE SplitPointChunks(_, _, _, _, _, _)
SplitPointChunks(pattern, finalSplitPoints, allShardIds, numContiguousChunksPerShard, out, i) ==
    IF i > Len(finalSplitPoints) THEN out
    ELSE
    LET min == IF i = 0 THEN globalMin(pattern) ELSE finalSplitPoints[i]
        max == IF i < Len(finalSplitPoints)
               THEN finalSplitPoints[i + 1] ELSE globalMax(pattern)
        shardId == allShardIds[
            ((i \div numContiguousChunksPerShard) % Len(allShardIds)) + 1]
    IN SplitPointChunks(pattern, finalSplitPoints, allShardIds,
                        numContiguousChunksPerShard,
                        appendChunk(out, min, max, shardId), i + 1)

\* the chunks laid out with one chunk per shard in turn
generateShardCollectionInitialChunksOnePerShard(pattern, epoch, validAfter, splitPoints, allShardIds, numContiguousChunksPerShard) ==
    SplitPointChunks(pattern, SetInsertAll(<<>>, splitPoints), allShardIds, 1,
                     NoChunks(epoch, validAfter), 0).chunks

generateShardCollectionInitialChunks(pattern, epoch, validAfter, splitPoints, allShardIds, numContiguousChunksPerShard) ==
    LET finalSplitPoints == SetInsertAll(<<>>, splitPoints)
    IN SplitPointChunks(pattern, finalSplitPoints, allShardIds,
                        numContiguousChunksPerShard,
                        NoChunks(epoch, validAfter), 0).chunks

----------------------------------------------------------------------------
(* AbstractTagsBasedSplitPolicy and its two subclasses *)

\* the lambda ceilOfXOverY
ceilOfXOverY(x, y) == (x \div y) + (IF x % y # 0 THEN 1 ELSE 0)

RECURSIVE SumCounts(_)
SumCounts(chunkDistribution) ==
    IF chunkDistribution = <<>> THEN 0
    ELSE Head(chunkDistribution).count + SumCounts(Tail(chunkDistribution))

\* the zone's first shard every time
SingleChunkPerTagBuildSplitInfoForTagFirstShard(p, tag) ==
    [splitPoints |-> <<>>,
     chunkDistribution |-> <<[shard |-> p.tagToShardIds[tag.tag][1], count |-> 1]>>,
     ub |-> FALSE,
     p |-> [p EXCEPT !.nextShardIndexForZone[tag.tag] = @ + 1]]

\* SingleChunkPerTagSplitPolicy::buildSplitInfoForTag on the policy object p;
\* the field p is the object after the call
SingleChunkPerTagBuildSplitInfoForTag(p, tag) ==
    LET nextShardIndex == p.nextShardIndexForZone[tag.tag]
        shardIdsForTag == p.tagToShardIds[tag.tag]
        shardId == shardIdsForTag[(nextShardIndex % Len(shardIdsForTag)) + 1]
    IN [splitPoints |-> <<>>,
        chunkDistribution |-> <<[shard |-> shardId, count |-> 1]>>,
        ub |-> FALSE,
        p |-> [p EXCEPT !.nextShardIndexForZone[tag.tag] = nextShardIndex + 1]]

\* PresplitHashedZonesSplitPolicy::buildSplitInfoForTag
\* the SplitInfo returned for a chunk distribution and its split points
PresplitSplitInfo(p, chunkDistribution, points) ==
    [splitPoints |-> points.splitPoints,
     chunkDistribution |-> chunkDistribution,
     ub |-> points.ub,
     p |-> p]

\* split points for one chunk more than the distribution holds
PresplitSplitInfoForOneMore(p, tag, pattern, chunkDistribution) ==
    PresplitSplitInfo(
        p, chunkDistribution,
        calculateHashedSplitPoints(
            pattern,
            SubSeq(tag.min, 1, HashedFieldIndex(pattern) - 1),
            SumCounts(chunkDistribution) + 1))

\* the split points of the zone for the chunk distribution computed first
PresplitSplitInfoFor(p, tag, pattern, chunkDistribution) ==
    PresplitSplitInfo(
        p, chunkDistribution,
        calculateHashedSplitPoints(
            pattern,
            SubSeq(tag.min, 1, HashedFieldIndex(pattern) - 1),
            SumCounts(chunkDistribution)))

\* a loop that gives every shard of the zone's tag one chunk
PresplitChunkDistributionOnePerShard(p, shardsForCurrentTag, numChunksPerShard) ==
    [i \in 1..Len(shardsForCurrentTag) |->
        [shard |-> shardsForCurrentTag[i], count |-> 1]]

\* the loop over the shards of the zone's tag
PresplitChunkDistribution(p, shardsForCurrentTag, numChunksPerShard) ==
    [i \in 1..Len(shardsForCurrentTag) |->
        [shard |-> shardsForCurrentTag[i],
         count |-> ceilOfXOverY(numChunksPerShard,
                                p.numTagsPerShard[shardsForCurrentTag[i]])]]

PresplitHashedZonesBuildSplitInfoForTag(p, tag, pattern) ==
    PresplitSplitInfoFor(
        p, tag, pattern,
        PresplitChunkDistribution(
            p, p.tagToShardIds[tag.tag],
            ceilOfXOverY(p.numInitialChunks,
                         Cardinality(DOMAIN p.numTagsPerShard))))

\* the virtual call buildSplitInfoForTag
buildSplitInfoForTag(p, tag, pattern) ==
    IF p.kind = "SingleChunkPerTag"
    THEN SingleChunkPerTagBuildSplitInfoForTag(p, tag)
    ELSE PresplitHashedZonesBuildSplitInfoForTag(p, tag, pattern)

\* the shard of every chunk of a zone, in order: each (shard, count) pair of
\* the distribution repeated count times
RECURSIVE TargetShards(_)
TargetShards(chunkDistribution) ==
    IF chunkDistribution = <<>> THEN <<>>
    ELSE [i \in 1..Head(chunkDistribution).count |-> Head(chunkDistribution).shard]
         \o TargetShards(Tail(chunkDistribution))

\* the two nested loops over chunkDistribution: chunk number splitPointIdx
RECURSIVE ZoneChunks(_, _, _, _, _)
ZoneChunks(tag, splitPoints, targets, out, splitPointIdx) ==
    IF splitPointIdx >= Len(targets) THEN out
    ELSE
    LET min == IF splitPointIdx = 0 THEN tag.min ELSE splitPoints[splitPointIdx]
        max == IF splitPointIdx = Len(splitPoints)
               THEN tag.max ELSE splitPoints[splitPointIdx + 1]
    IN ZoneChunks(tag, splitPoints, targets,
                  appendChunk(out, min, max, targets[splitPointIdx + 1]),
                  splitPointIdx + 1)

\* the lambda nextShardIdForHole on the loop state
HoleChunkSameIndex(st, shardIds, min, max) ==
    [st EXCEPT !.out = appendChunk(st.out, min, max,
                                   shardIds[(st.indx % Len(shardIds)) + 1])]

HoleChunk(st, shardIds, min, max) ==
    [st EXCEPT !.out = appendChunk(st.out, min, max,
                                   shardIds[(st.indx % Len(shardIds)) + 1]),
               !.indx = st.indx + 1]

\* no hole chunk before a zone
HoleBeforeSkipped(st, shardIds, tag) == st

\* the hole chunk before a zone, when the zone does not start at lastChunkMax
HoleBefore(st, shardIds, tag) ==
    IF woCompare(tag.min, st.lastChunkMax) > 0
    THEN HoleChunk(st, shardIds, st.lastChunkMax, tag.min)
    ELSE st

\* the rest of one iteration: the uassert on the zone's shards, the
\* invariant on the split info, the zone's chunks; st is the state after
\* the hole chunk
TagStep(st, tag, splitInfo) ==
    IF st.p.tagToShardIds[tag.tag] = <<>>
    THEN [st EXCEPT !.status = "Location50973"]
    ELSE IF splitInfo.ub
    THEN [st EXCEPT !.status = "undefined"]
    ELSE IF Len(splitInfo.splitPoints) + 1 # SumCounts(splitInfo.chunkDistribution)
    THEN [st EXCEPT !.status = "invariant", !.p = splitInfo.p]
    ELSE [st EXCEPT
            !.out = ZoneChunks(tag, splitInfo.splitPoints,
                               TargetShards(splitInfo.chunkDistribution),
                               st.out, 0),
            !.lastChunkMax = tag.max,
            !.p = splitInfo.p]

\* the loop over _tags, from tag number i on; st.p is the policy object
RECURSIVE TagsLoop(_, _, _, _)
TagsLoopNext(pattern, shardIds, st, i) ==
    IF st.status = "OK" THEN TagsLoop(pattern, shardIds, st, i) ELSE st

TagsLoop(pattern, shardIds, st, i) ==
    IF i > Len(st.p.tags) THEN st
    ELSE TagsLoopNext(pattern, shardIds,
                      TagStep(HoleBefore(st, shardIds, st.p.tags[i]),
                              st.p.tags[i],
                              buildSplitInfoForTag(st.p, st.p.tags[i], pattern)),
                      i + 1)

\* the hole chunk after the last zone
HoleAfter(st, pattern, shardIds) ==
    IF st.status = "OK" /\ woCompare(st.lastChunkMax, globalMax(pattern)) < 0
    THEN HoleChunk(st, shardIds, st.lastChunkMax, globalMax(pattern))
    ELSE st

TagsResult(st) ==
    [status |-> st.status,
     chunks |-> IF st.status = "OK" THEN st.out.chunks ELSE <<>>,
     p |-> st.p]

\* AbstractTagsBasedSplitPolicy::createFirstChunks: [status, chunks, p]
AbstractTagsBasedCreateFirstChunks(p, pattern, shardIds, epoch, validAfter) ==
    TagsResult(
        HoleAfter(
            TagsLoop(pattern, shardIds,
                     [out |-> NoChunks(epoch, validAfter),
                      lastChunkMax |-> globalMin(pattern),
                      indx |-> 0,
                      p |-> p,
                      status |-> "OK"],
                     1),
            pattern, shardIds))

----------------------------------------------------------------------------
(* PresplitHashedZonesSplitPolicy: _validate and the constructor *)

\* the checks _validate makes on one zone of a hashed-suffix key
ValidateTag(pattern, tag) ==
    LET h == HashedFieldIndex(pattern)
    IN IF \E i \in 1..(h - 1) : IsMinKey(tag.min[i]) \/ IsMaxKey(tag.min[i])
       THEN "Location31388"
       ELSE IF \A i \in 1..(h - 1) : woCompare(<<tag.min[i]>>, <<tag.max[i]>>) = 0
       THEN "Location31390"
       ELSE IF ~IsMinKey(tag.min[h])
       THEN "Location31389"
       ELSE IF \E i \in (h + 1)..Len(pattern) : ~IsMinKey(tag.min[i])
       THEN "Location31391"
       ELSE "OK"

RECURSIVE ValidateTags(_, _)
ValidateTags(pattern, zones) ==
    IF zones = <<>> THEN "OK"
    ELSE IF ValidateTag(pattern, Head(zones)) # "OK"
    THEN ValidateTag(pattern, Head(zones))
    ELSE ValidateTags(pattern, Tail(zones))

\* PresplitHashedZonesSplitPolicy::_validate
Validate(pattern, zones, isCollectionEmpty) ==
    IF ~(isCollectionEmpty /\ zones # <<>> /\ isHashedPattern(pattern))
    THEN "Location31387"
    ELSE IF hasHashedPrefix(pattern)
    THEN IF /\ Len(zones) = 1
            /\ woCompare(globalMin(pattern), zones[1].min) = 0
            /\ woCompare(globalMax(pattern), zones[1].max) = 0
         THEN "OK" ELSE "Location31412"
    ELSE ValidateTags(pattern, zones)

\* a count of the distinct tag names of the zones on each shard
NumTagsPerShardDistinctNames(zones, tagToShardIds) ==
    [s \in UNION {Range(tagToShardIds[zones[i].tag]) : i \in 1..Len(zones)} |->
        Cardinality({zones[i].tag : i \in {j \in 1..Len(zones) :
                                              s \in Range(tagToShardIds[zones[j].tag])}})]

\* a loop that counts every shard of a zone's tag once
NumTagsPerShardOnce(zones, tagToShardIds) ==
    [s \in UNION {Range(tagToShardIds[zones[i].tag]) : i \in 1..Len(zones)} |-> 1]

\* _numTagsPerShard after the constructor's loop: one increment per zone of
\* the list and shard of the zone's tag
NumTagsPerShard(zones, tagToShardIds) ==
    LET counted == UNION {Range(tagToShardIds[zones[i].tag]) : i \in 1..Len(zones)}
    IN [s \in counted |->
            Cardinality({i \in 1..Len(zones) : s \in Range(tagToShardIds[zones[i].tag])})]

\* the constructor: [status, policy]
PresplitHashedZonesSplitPolicy(docs, pattern, zones, numInitialChunks, isCollectionEmpty) ==
    LET tagToShardIds == buildTagsToShardIdsMap(docs, zones)
        status == Validate(pattern, zones, isCollectionEmpty)
        numTagsPerShard == NumTagsPerShard(zones, tagToShardIds)
    IN IF status # "OK" THEN [status |-> status, policy |-> [kind |-> "none"]]
       ELSE IF DOMAIN numTagsPerShard = {}
       THEN [status |-> "invariant", policy |-> [kind |-> "none"]]
       ELSE [status |-> "OK",
             policy |-> [kind |-> "PresplitHashedZones",
                         tags |-> zones,
                         tagToShardIds |-> tagToShardIds,
                         numTagsPerShard |-> numTagsPerShard,
                         numInitialChunks |->
                            IF numInitialChunks # 0 THEN numInitialChunks
                            ELSE Cardinality(DOMAIN numTagsPerShard) * 2]]

----------------------------------------------------------------------------
(* The policies' constructors and InitialSplitPolicy::calculateOptimizationStrategy *)

SingleChunkOnPrimarySplitPolicy == [kind |-> "SingleChunkOnPrimary"]

Max(a, b) == IF a >= b THEN a ELSE b

\* SplitPointsBasedSplitPolicy(shardKeyPattern, numShards, numInitialChunks)
SplitPointsBasedSplitPolicy(pattern, numShards, numInitialChunks) ==
    [kind |-> "SplitPointsBased",
     splitPoints |->
        calculateHashedSplitPoints(pattern, <<>>,
                                   Max(numInitialChunks, 2 * numShards)).splitPoints,
     numContiguousChunksPerShard |-> 1]

\* SingleChunkPerTagSplitPolicy(opCtx, tags): the base class constructor and
\* an empty _nextShardIndexForZone, whose operator[] starts a counter at 0
SingleChunkPerTagSplitPolicy(docs, zones) ==
    [kind |-> "SingleChunkPerTag",
     tags |-> zones,
     tagToShardIds |-> buildTagsToShardIdsMap(docs, zones),
     nextShardIndexForZone |-> [z \in ZoneNames |-> 0]]

\* the selector with one chunk on the primary shard whenever there are zones
calculateOptimizationStrategyZonesOnPrimary(docs, pattern, numInitialChunks, presplitHashedZones, zones, numShards, collectionIsEmpty) ==
    IF ~(numInitialChunks = 0 \/ (isHashedPattern(pattern) /\ collectionIsEmpty))
    THEN [status |-> "InvalidOptions", policy |-> [kind |-> "none"]]
    ELSE IF ~(numInitialChunks = 0 \/ hasHashedPrefix(pattern) \/ presplitHashedZones)
    THEN [status |-> "InvalidOptions", policy |-> [kind |-> "none"]]
    ELSE IF zones = <<>> /\ hasHashedPrefix(pattern) /\ collectionIsEmpty
    THEN [status |-> "OK",
          policy |-> SplitPointsBasedSplitPolicy(pattern, numShards, numInitialChunks)]
    ELSE [status |-> "OK", policy |-> SingleChunkOnPrimarySplitPolicy]

\* the selector looking at the zones before presplitHashedZones
calculateOptimizationStrategyZonesFirst(docs, pattern, numInitialChunks, presplitHashedZones, zones, numShards, collectionIsEmpty) ==
    IF ~(numInitialChunks = 0 \/ (isHashedPattern(pattern) /\ collectionIsEmpty))
    THEN [status |-> "InvalidOptions", policy |-> [kind |-> "none"]]
    ELSE IF ~(numInitialChunks = 0 \/ hasHashedPrefix(pattern) \/ presplitHashedZones)
    THEN [status |-> "InvalidOptions", policy |-> [kind |-> "none"]]
    ELSE IF zones # <<>> /\ collectionIsEmpty
    THEN [status |-> "OK", policy |-> SingleChunkPerTagSplitPolicy(docs, zones)]
    ELSE IF presplitHashedZones
    THEN PresplitHashedZonesSplitPolicy(docs, pattern, zones, numInitialChunks,
                                        collectionIsEmpty)
    ELSE IF zones = <<>> /\ hasHashedPrefix(pattern) /\ collectionIsEmpty
    THEN [status |-> "OK",
          policy |-> SplitPointsBasedSplitPolicy(pattern, numShards, numInitialChunks)]
    ELSE [status |-> "OK", policy |-> SingleChunkOnPrimarySplitPolicy]

\* the selector without its second uassert
calculateOptimizationStrategyOneCheck(docs, pattern, numInitialChunks, presplitHashedZones, zones, numShards, collectionIsEmpty) ==
    IF ~(numInitialChunks = 0 \/ (isHashedPattern(pattern) /\ collectionIsEmpty))
    THEN [status |-> "InvalidOptions", policy |-> [kind |-> "none"]]
    ELSE IF presplitHashedZones
    THEN PresplitHashedZonesSplitPolicy(docs, pattern, zones, numInitialChunks,
                                        collectionIsEmpty)
    ELSE IF zones = <<>> /\ hasHashedPrefix(pattern) /\ collectionIsEmpty
    THEN [status |-> "OK",
          policy |-> SplitPointsBasedSplitPolicy(pattern, numShards, numInitialChunks)]
    ELSE IF zones # <<>> /\ collectionIsEmpty
    THEN [status |-> "OK", policy |-> SingleChunkPerTagSplitPolicy(docs, zones)]
    ELSE [status |-> "OK", policy |-> SingleChunkOnPrimarySplitPolicy]

\* calculateOptimizationStrategy: [status, policy]
calculateOptimizationStrategy(docs, pattern, numInitialChunks, presplitHashedZones, zones, numShards, collectionIsEmpty) ==
    IF ~(numInitialChunks = 0 \/ (isHashedPattern(pattern) /\ collectionIsEmpty))
    THEN [status |-> "InvalidOptions", policy |-> [kind |-> "none"]]
    ELSE IF ~(numInitialChunks = 0 \/ hasHashedPrefix(pattern) \/ presplitHashedZones)
    THEN [status |-> "InvalidOptions", policy |-> [kind |-> "none"]]
    ELSE IF presplitHashedZones
    THEN PresplitHashedZonesSplitPolicy(docs, pattern, zones, numInitialChunks,
                                        collectionIsEmpty)
    ELSE IF zones = <<>> /\ hasHashedPrefix(pattern) /\ collectionIsEmpty
    THEN [status |-> "OK",
          policy |-> SplitPointsBasedSplitPolicy(pattern, numShards, numInitialChunks)]
    ELSE IF zones # <<>>
    THEN IF collectionIsEmpty
         THEN [status |-> "OK", policy |-> SingleChunkPerTagSplitPolicy(docs, zones)]
         ELSE [status |-> "OK", policy |-> SingleChunkOnPrimarySplitPolicy]
    ELSE [status |-> "OK", policy |-> SingleChunkOnPrimarySplitPolicy]

\* SingleChunkOnPrimarySplitPolicy::createFirstChunks
SingleChunkOnPrimaryCreateFirstChunks(pattern, primaryShardId, epoch, validAfter) ==
    appendChunk(NoChunks(epoch, validAfter), globalMin(pattern), globalMax(pattern),
                primaryShardId).chunks

\* SplitPointsBasedSplitPolicy::createFirstChunks
SplitPointsBasedCreateFirstChunks(p, pattern, shardIds, epoch, validAfter) ==
    generateShardCollectionInitialChunks(pattern, epoch, validAfter, p.splitPoints,
                                         shardIds, p.numContiguousChunksPerShard)

----------------------------------------------------------------------------
(* SamplingBasedSplitPolicy *)

\* every zone bound extended to the shape of the shard key
ExtendZones(pattern, zones) ==
    [i \in 1..Len(zones) |->
        [zones[i] EXCEPT !.min = extendRangeBound(pattern, zones[i].min),
                         !.max = extendRangeBound(pattern, zones[i].max)]]

\* SamplingBasedSplitPolicy::make and the constructor: [status, policy].
\* samples is what the SampleDocumentSource has left to yield.
SamplingBasedSplitPolicy(numInitialChunks, hasZones, zones, samples, samplesPerChunk) ==
    IF ~(samplesPerChunk > 0)
    THEN [status |-> "Location4952603", policy |-> [kind |-> "none"]]
    ELSE IF ~(numInitialChunks > 0)
    THEN [status |-> "Location4952602", policy |-> [kind |-> "none"]]
    ELSE IF hasZones /\ zones = <<>>
    THEN [status |-> "Location4952604", policy |-> [kind |-> "none"]]
    ELSE [status |-> "OK",
          policy |-> [kind |-> "SamplingBased",
                      numInitialChunks |-> numInitialChunks,
                      hasZones |-> hasZones,
                      zones |-> zones,
                      samples |-> samples]]

\* a loop that counts every key of the sample, new or not
RECURSIVE appendSplitPointsFromSampleCountAll(_, _, _)
appendSplitPointsFromSampleCountAll(splitPoints, samples, nRemaining) ==
    IF samples = <<>> THEN [splitPoints |-> splitPoints, samples |-> samples]
    ELSE IF ~(nRemaining > 0)
    THEN [splitPoints |-> splitPoints, samples |-> Tail(samples)]
    ELSE appendSplitPointsFromSampleCountAll(
            SetInsert(splitPoints, Head(samples)), Tail(samples), nRemaining - 1)

\* _appendSplitPointsFromSample, from the first _samples->getNext() on:
\* [splitPoints, samples]
RECURSIVE appendSplitPointsFromSample(_, _, _)
appendSplitPointsFromSample(splitPoints, samples, nRemaining) ==
    IF samples = <<>> THEN [splitPoints |-> splitPoints, samples |-> samples]
    ELSE IF ~(nRemaining > 0)
    THEN [splitPoints |-> splitPoints, samples |-> Tail(samples)]
    ELSE appendSplitPointsFromSample(
            SetInsert(splitPoints, Head(samples)), Tail(samples),
            IF Head(samples) \in Range(splitPoints)
            THEN nRemaining ELSE nRemaining - 1)

\* a createFirstSplitPoints that reads the source whatever the zones give
createFirstSplitPointsAlwaysSampling(p, pattern) ==
    LET zones == IF p.hasZones THEN ExtendZones(pattern, p.zones) ELSE p.zones
        fromZones == extractSplitPointsFromZones(pattern, zones)
        sampled == appendSplitPointsFromSample(
                       fromZones, p.samples, p.numInitialChunks - Len(fromZones) - 1)
    IN [status |-> IF Len(sampled.splitPoints) >= p.numInitialChunks - 1
                   THEN "OK" ELSE "Location4952606",
        splitPoints |-> sampled.splitPoints,
        p |-> [p EXCEPT !.zones = zones, !.samples = sampled.samples]]

\* SamplingBasedSplitPolicy::createFirstSplitPoints: [status, splitPoints, p]
createFirstSplitPoints(p, pattern) ==
    LET zones == IF p.hasZones THEN ExtendZones(pattern, p.zones) ELSE p.zones
        fromZones == extractSplitPointsFromZones(pattern, zones)
        sampled == IF Len(fromZones) < p.numInitialChunks - 1
                   THEN appendSplitPointsFromSample(
                            fromZones, p.samples,
                            p.numInitialChunks - Len(fromZones) - 1)
                   ELSE [splitPoints |-> fromZones, samples |-> p.samples]
    IN [status |-> IF Len(sampled.splitPoints) >= p.numInitialChunks - 1
                   THEN "OK" ELSE "Location4952606",
        splitPoints |-> sampled.splitPoints,
        p |-> [p EXCEPT !.zones = zones, !.samples = sampled.samples]]

\* the loop of selectShardAndAppendChunk calls over the points left
RECURSIVE SelectAndAppend(_, _, _, _)
SelectAndAppend(zones, zoneToShardMap, st, points) ==
    IF points = <<>> \/ st.status # "OK" THEN st
    ELSE
    LET best == selectBestShard(st.chunkDistribution, zones, zoneToShardMap,
                                st.lastChunkMax, Head(points))
    IN IF best.status # "OK" THEN [st EXCEPT !.status = best.status]
       ELSE SelectAndAppend(zones, zoneToShardMap,
                [st EXCEPT
                    !.out = appendChunk(st.out, st.lastChunkMax, Head(points),
                                        best.shard),
                    !.chunkDistribution[best.shard] = @ + 1,
                    !.lastChunkMax = Head(points)],
                Tail(points))

\* SamplingBasedSplitPolicy::createFirstChunks: [status, chunks, p]
SamplingBasedCreateFirstChunks(p, pattern, docs, shardIds, epoch, validAfter) ==
    LET first == createFirstSplitPoints(p, pattern)
        zones == first.p.zones
        tagMap == IF p.hasZones THEN buildTagsToShardIdsMap(docs, zones)
                  ELSE [z \in {} |-> <<>>]
        zoneToShardMap == [z \in DOMAIN tagMap \cup {""} |->
                              IF z \in DOMAIN tagMap THEN tagMap[z] ELSE shardIds]
        st0 == [out |-> NoChunks(epoch, validAfter),
                chunkDistribution |-> [s \in Range(shardIds) |-> 0],
                lastChunkMax |-> globalMin(pattern),
                status |-> "OK"]
        st1 == SelectAndAppend(IF p.hasZones THEN zones ELSE <<>>, zoneToShardMap,
                               st0, first.splitPoints \o <<globalMax(pattern)>>)
    IN IF first.status # "OK"
       THEN [status |-> first.status, chunks |-> <<>>, p |-> first.p]
       ELSE [status |-> st1.status,
             chunks |-> IF st1.status = "OK" THEN st1.out.chunks ELSE <<>>,
             p |-> first.p]

----------------------------------------------------------------------------
(* ShardDistributionSplitPolicy *)

\* ShardDistributionSplitPolicy::make: [status, policy]
ShardDistributionSplitPolicy(shardDistribution, hasZones, zones) ==
    IF ~(Len(shardDistribution) > 0)
    THEN [status |-> "Location7661501", policy |-> [kind |-> "none"]]
    ELSE [status |-> "OK",
          policy |-> [kind |-> "ShardDistribution",
                      shardDistribution |-> shardDistribution,
                      hasZones |-> hasZones,
                      zones |-> zones]]

\* a loop that places every chunk on the shard of the first range
RECURSIVE appendChunksOnFirstShard(_, _, _, _)
appendChunksOnFirstShard(p, pattern, splitPoint, st) ==
    IF ~(st.shardDistributionIdx < Len(p.shardDistribution)) THEN st
    ELSE
    LET range == p.shardDistribution[st.shardDistributionIdx + 1]
        shardMin == extendRangeBound(pattern, range.min)
        shardMax == extendRangeBound(pattern, range.max)
        lastChunkMax == IF st.out.chunks = <<>> THEN globalMin(pattern)
                        ELSE st.out.chunks[Len(st.out.chunks)].max
    IN IF KeyLess(shardMin, splitPoint)
       THEN IF KeyLeq(shardMax, splitPoint)
            THEN appendChunksOnFirstShard(p, pattern, splitPoint,
                    [out |-> appendChunk(st.out, lastChunkMax, shardMax,
                                         p.shardDistribution[1].shard),
                     shardDistributionIdx |-> st.shardDistributionIdx + 1])
            ELSE [st EXCEPT !.out = appendChunk(st.out, lastChunkMax, splitPoint,
                                                p.shardDistribution[1].shard)]
       ELSE st

\* _appendChunks: the while loop on [out, shardDistributionIdx] (0-based)
RECURSIVE appendChunks(_, _, _, _)
appendChunks(p, pattern, splitPoint, st) ==
    IF ~(st.shardDistributionIdx < Len(p.shardDistribution)) THEN st
    ELSE
    LET range == p.shardDistribution[st.shardDistributionIdx + 1]
        shardMin == extendRangeBound(pattern, range.min)
        shardMax == extendRangeBound(pattern, range.max)
        lastChunkMax == IF st.out.chunks = <<>> THEN globalMin(pattern)
                        ELSE st.out.chunks[Len(st.out.chunks)].max
    IN IF KeyLess(shardMin, splitPoint)
       THEN IF KeyLeq(shardMax, splitPoint)
            THEN appendChunks(p, pattern, splitPoint,
                    [out |-> appendChunk(st.out, lastChunkMax, shardMax, range.shard),
                     shardDistributionIdx |-> st.shardDistributionIdx + 1])
            ELSE [st EXCEPT !.out = appendChunk(st.out, lastChunkMax, splitPoint,
                                                range.shard)]
       ELSE st

RECURSIVE AppendChunksForAll(_, _, _, _)
AppendChunksForAll(p, pattern, points, st) ==
    IF points = <<>> THEN st
    ELSE AppendChunksForAll(p, pattern, Tail(points),
                            appendChunks(p, pattern, Head(points), st))

\* a check that lets a chunk in no zone pass
checkShardsMatchZonesZonedOnly(docs, p, chunks, zones) ==
    LET shardIdToTags == buildShardIdToTagsMap(docs, p.shardDistribution)
    IN \A i \in 1..Len(chunks) :
          getZoneForChunk(zones, chunks[i].min, chunks[i].max) # "" =>
             /\ chunks[i].shard \in DOMAIN shardIdToTags
             /\ getZoneForChunk(zones, chunks[i].min, chunks[i].max)
                   \in shardIdToTags[chunks[i].shard]

\* the check of the chunks' shards against the zones left out
checkShardsMatchZonesSkipped(docs, p, chunks, zones) == TRUE

\* _checkShardsMatchZones: TRUE when no uassert fails
checkShardsMatchZones(docs, p, chunks, zones) ==
    LET shardIdToTags == buildShardIdToTagsMap(docs, p.shardDistribution)
    IN \A i \in 1..Len(chunks) :
          /\ chunks[i].shard \in DOMAIN shardIdToTags
          /\ getZoneForChunk(zones, chunks[i].min, chunks[i].max)
                \in shardIdToTags[chunks[i].shard]

\* ShardDistributionSplitPolicy::createFirstChunks:
\* [status, chunks, p, shardDistributionIdx]
ShardDistributionCreateFirstChunks(p, pattern, docs, epoch, validAfter) ==
    LET zones == IF p.hasZones THEN ExtendZones(pattern, p.zones) ELSE p.zones
        pNow == [p EXCEPT !.zones = zones]
        splitPoints == extractSplitPointsFromZones(pattern, zones)
        st == AppendChunksForAll(pNow, pattern,
                                 splitPoints \o <<globalMax(pattern)>>,
                                 [out |-> NoChunks(epoch, validAfter),
                                  shardDistributionIdx |-> 0])
    IN IF ~p.shardDistribution[1].hasMin
       THEN [status |-> "InvalidOptions", chunks |-> <<>>, p |-> pNow,
             shardDistributionIdx |-> 0]
       ELSE IF p.hasZones /\ ~checkShardsMatchZones(docs, pNow, st.out.chunks, zones)
       THEN [status |-> "InvalidOptions", chunks |-> <<>>, p |-> pNow,
             shardDistributionIdx |-> st.shardDistributionIdx]
       ELSE [status |-> "OK", chunks |-> st.out.chunks, p |-> pNow,
             shardDistributionIdx |-> st.shardDistributionIdx]

----------------------------------------------------------------------------
(* The inputs *)

Patterns == {<<"1">>, <<"hashed">>, <<"1", "hashed">>}

\* The keys zone bounds, range bounds and samples are drawn from, ascending
\* from globalMin to globalMax.
BoundaryKeys(pattern) ==
    IF Len(pattern) = 1
    THEN <<globalMin(pattern)>> \o [k \in 1..MaxKeyVal |-> <<KeyVal(k)>>]
         \o <<globalMax(pattern)>>
    ELSE <<globalMin(pattern), <<KeyVal(1), MinKey>>, <<KeyVal(1), MaxKey>>>>
         \o [k \in 1..(MaxKeyVal - 1) |-> <<KeyVal(k + 1), MinKey>>]
         \o <<globalMax(pattern)>>

\* ascending lists of at most k ranges <<a, b>> of indices lo <= a < b <= hi
RECURSIVE IntervalLists(_, _, _)
IntervalLists(lo, hi, k) ==
    IF k = 0 THEN {<<>>}
    ELSE {<<>>} \cup
         UNION {{<<ab>> \o rest : rest \in IntervalLists(ab[2], hi, k - 1)} :
                ab \in {x \in (lo..hi) \X (lo..hi) : x[1] < x[2]}}

\* The zone lists of a collection: sorted by min, not overlapping.  Zone
\* names are interchangeable, so the first zone is named "A".
ZoneLists(pattern) ==
    LET keys == BoundaryKeys(pattern)
    IN UNION {{[i \in 1..Len(iv) |->
                    [min |-> keys[iv[i][1]], max |-> keys[iv[i][2]], tag |-> names[i]]] :
               names \in {n \in [1..Len(iv) -> ZoneNames] : Len(iv) > 0 => n[1] = "A"}} :
              iv \in IntervalLists(1, Len(keys), MaxZones)}

\* config.shards: 1..MaxShards shards, each with some of the zone tags in use
\* (a tag that no zone of the list names is never looked up)
ShardDocLists(zones) ==
    UNION {[1..n -> SUBSET TagNamesOf(zones)] : n \in 1..MaxShards}

ShardDocsOf(tagSets) ==
    [i \in 1..Len(tagSets) |-> [name |-> ShardNames[i], tags |-> tagSets[i]]]

Orders(seq) ==
    {[i \in 1..Len(seq) |-> seq[f[i]]] :
        f \in {g \in [1..Len(seq) -> 1..Len(seq)] :
                  \A i, j \in 1..Len(seq) : g[i] = g[j] => i = j}}

NoPolicy == [kind |-> "none"]

NotMade == [op |-> "none"]

NoResult == [status |-> "none", chunks |-> <<>>]

NoHashedArgs == [numInitialChunks |-> 0]

NotCalled == [called |-> FALSE]

NoPipelineSource == [made |-> FALSE]

Init ==
    /\ shardKeyPattern \in Patterns
    /\ tags \in ZoneLists(shardKeyPattern)
    /\ shardDocs \in {ShardDocsOf(t) : t \in ShardDocLists(tags)}
    /\ shuffledShardIds \in Orders(getAllShardIds(shardDocs))
    /\ clusterTime = 1
    /\ oidCounter = 0
    /\ policy = NoPolicy
    /\ made = NotMade
    /\ numCalls = 0
    /\ result = NoResult
    /\ hashedArgs = NoHashedArgs
    /\ hashedOut = NotCalled
    /\ pipelineSource = NoPipelineSource

----------------------------------------------------------------------------
(* The operations *)

\* a caller asks the strategy selector for a policy
CalculateOptimizationStrategy ==
    /\ made = NotMade
    /\ \E numInitialChunks \in 0..MaxInitialChunks,
          presplitHashedZones \in BOOLEAN, collectionIsEmpty \in BOOLEAN :
          LET r == calculateOptimizationStrategy(
                        shardDocs, shardKeyPattern, numInitialChunks,
                        presplitHashedZones, tags, Len(shardDocs), collectionIsEmpty)
          IN /\ policy' = r.policy
             /\ made' = [op |-> "calculateOptimizationStrategy",
                         numInitialChunks |-> numInitialChunks,
                         presplitHashedZones |-> presplitHashedZones,
                         collectionIsEmpty |-> collectionIsEmpty,
                         status |-> r.status]
    /\ UNCHANGED <<shardKeyPattern, shardDocs, shuffledShardIds, tags, clusterTime,
                   oidCounter, numCalls, result, hashedArgs, hashedOut,
                   pipelineSource>>

CanCall(kinds) ==
    /\ policy.kind \in kinds
    /\ numCalls < MaxCalls

Called(status, chunks, newPolicy) ==
    /\ result' = [status |-> status, chunks |-> chunks]
    /\ policy' = newPolicy
    /\ numCalls' = numCalls + 1
    /\ oidCounter' = oidCounter + 1
    /\ clusterTime' = clusterTime + 1
    /\ UNCHANGED <<shardKeyPattern, shardDocs, shuffledShardIds, tags, made,
                   hashedArgs, hashedOut,
                   pipelineSource>>

SingleChunkOnPrimaryCall ==
    /\ CanCall({"SingleChunkOnPrimary"})
    /\ \E primaryShardId \in Range(getAllShardIds(shardDocs)) :
          Called("OK",
                 SingleChunkOnPrimaryCreateFirstChunks(
                    shardKeyPattern, primaryShardId, oidCounter + 1, clusterTime),
                 policy)

SplitPointsBasedCall ==
    /\ CanCall({"SplitPointsBased"})
    /\ Called("OK",
              SplitPointsBasedCreateFirstChunks(
                 policy, shardKeyPattern, shuffledShardIds, oidCounter + 1, clusterTime),
              policy)

AbstractTagsBasedCall ==
    /\ CanCall({"SingleChunkPerTag", "PresplitHashedZones"})
    /\ LET r == AbstractTagsBasedCreateFirstChunks(
                    policy, shardKeyPattern, shuffledShardIds, oidCounter + 1,
                    clusterTime)
       IN Called(r.status, r.chunks, r.p)

\* the zones a resharding caller passes: the collection's zones with the
\* trailing MinKey fields of every bound left out
ShortBound(bound) ==
    IF Len(bound) > 1 /\ IsMinKey(bound[Len(bound)])
    THEN SubSeq(bound, 1, Len(bound) - 1) ELSE bound

ShortZones(zones) ==
    [i \in 1..Len(zones) |->
        [zones[i] EXCEPT !.min = ShortBound(zones[i].min),
                         !.max = ShortBound(zones[i].max)]]

\* zones are optional; a caller with zones passes them
ZonesGiven == IF tags = <<>> THEN BOOLEAN ELSE {TRUE}

\* sample keys: concrete values, as the sorted pipeline yields them
SampleKeys(pattern) ==
    IF Len(pattern) = 1 THEN [k \in 1..MaxKeyVal |-> <<KeyVal(k)>>]
    ELSE [k \in 1..MaxKeyVal |-> <<KeyVal(k), KeyVal(1)>>]

SampleLists(pattern) ==
    LET keys == SampleKeys(pattern)
    IN UNION {{[i \in 1..n |-> keys[f[i]]] :
               f \in {g \in [1..n -> 1..Len(keys)] :
                        \A i \in 1..(n - 1) : g[i] <= g[i + 1]}} :
              n \in 0..MaxKeyVal}

\* a resharding caller constructs the sampling policy
MakeSamplingBased ==
    /\ made = NotMade
    /\ \E numInitialChunks \in 0..MaxInitialChunks, hasZones \in ZonesGiven,
          samples \in SampleLists(shardKeyPattern) :
          LET r == SamplingBasedSplitPolicy(
                        numInitialChunks, hasZones,
                        IF hasZones THEN ShortZones(tags) ELSE <<>>, samples, 1)
          IN /\ policy' = r.policy
             /\ made' = [op |-> "SamplingBasedSplitPolicy",
                         numInitialChunks |-> numInitialChunks,
                         hasZones |-> hasZones,
                         samples |-> IF r.status = "OK" THEN samples ELSE <<>>,
                         status |-> r.status]
    /\ UNCHANGED <<shardKeyPattern, shardDocs, shuffledShardIds, tags, clusterTime,
                   oidCounter, numCalls, result, hashedArgs, hashedOut,
                   pipelineSource>>

SamplingBasedCall ==
    /\ CanCall({"SamplingBased"})
    /\ LET r == SamplingBasedCreateFirstChunks(
                    policy, shardKeyPattern, shardDocs, shuffledShardIds,
                    oidCounter + 1, clusterTime)
       IN Called(r.status, r.chunks, r.p)

\* a shard that is not in config.shards
ForeignShard == "SX"

\* the shard distributions of a caller: ascending, contiguous ranges that
\* cover the key space, as the command handler validates them, on shards the
\* caller names; or ranges without min and max
ShardDistributions(pattern, docs) ==
    LET keys == BoundaryKeys(pattern)
        shards == Range(getAllShardIds(docs)) \cup {ForeignShard}
        cutLists == {c \in IntervalLists(1, Len(keys), MaxZones) :
                        /\ c # <<>>
                        /\ c[1][1] = 1
                        /\ c[Len(c)][2] = Len(keys)
                        /\ \A i \in 1..(Len(c) - 1) : c[i][2] = c[i + 1][1]}
    IN UNION {{[i \in 1..Len(c) |->
                    [min |-> ShortBound(keys[c[i][1]]),
                     max |-> ShortBound(keys[c[i][2]]),
                     hasMin |-> TRUE, shard |-> on[i]]] :
               on \in [1..Len(c) -> shards]} : c \in cutLists}
       \cup {<<>>,
             <<[min |-> <<>>, max |-> <<>>, hasMin |-> FALSE,
                shard |-> getAllShardIds(docs)[1]]>>}

\* a resharding caller constructs the shard distribution policy; the policy
\* never reads the shuffled shard list, so one order stands for every order
MakeShardDistribution ==
    /\ made = NotMade
    /\ shuffledShardIds = getAllShardIds(shardDocs)
    /\ \E shardDistribution \in ShardDistributions(shardKeyPattern, shardDocs),
          hasZones \in ZonesGiven :
          LET r == ShardDistributionSplitPolicy(
                        shardDistribution, hasZones,
                        IF hasZones THEN ShortZones(tags) ELSE <<>>)
          IN /\ policy' = r.policy
             /\ made' = [op |-> "ShardDistributionSplitPolicy",
                         hasZones |-> hasZones,
                         status |-> r.status]
    /\ UNCHANGED <<shardKeyPattern, shardDocs, shuffledShardIds, tags, clusterTime,
                   oidCounter, numCalls, result, hashedArgs, hashedOut,
                   pipelineSource>>

ShardDistributionCall ==
    /\ CanCall({"ShardDistribution"})
    /\ LET r == ShardDistributionCreateFirstChunks(
                    policy, shardKeyPattern, shardDocs, oidCounter + 1, clusterTime)
       IN Called(r.status, r.chunks, r.p)

Next ==
    \/ CalculateOptimizationStrategy
    \/ MakeSamplingBased
    \/ MakeShardDistribution
    \/ SingleChunkOnPrimaryCall
    \/ SplitPointsBasedCall
    \/ AbstractTagsBasedCall
    \/ SamplingBasedCall
    \/ ShardDistributionCall

Spec == Init /\ [][Next]_vars

----------------------------------------------------------------------------
(* calculateHashedSplitPoints on its own *)

HashedPatterns ==
    {<<"hashed">>, <<"hashed", "1">>, <<"1", "hashed">>, <<"1", "hashed", "1">>}

\* the values of the fields before the hashed field
HashedPrefixes(pattern) ==
    IF HashedFieldIndex(pattern) = 1 THEN {<<>>}
    ELSE {<<KeyVal(k)>> : k \in 1..MaxKeyVal}

InitHashed ==
    /\ hashedArgs \in
          UNION {{[pattern |-> p, prefix |-> x, numInitialChunks |-> n] :
                    x \in HashedPrefixes(p), n \in 1..MaxHashedChunks} :
                 p \in HashedPatterns}
    /\ hashedOut = NotCalled
    /\ pipelineSource = NoPipelineSource
    /\ shardKeyPattern = hashedArgs.pattern
    /\ tags = <<>>
    /\ shardDocs = ShardDocsOf(<<{}>>)
    /\ shuffledShardIds = getAllShardIds(shardDocs)
    /\ clusterTime = 1
    /\ oidCounter = 0
    /\ policy = NoPolicy
    /\ made = NotMade
    /\ numCalls = 0
    /\ result = NoResult

CalculateHashedSplitPoints ==
    /\ ~hashedOut.called
    /\ LET r == calculateHashedSplitPoints(hashedArgs.pattern, hashedArgs.prefix,
                                           hashedArgs.numInitialChunks)
       IN hashedOut' = [called |-> TRUE, splitPoints |-> r.splitPoints, ub |-> r.ub]
    /\ UNCHANGED <<shardKeyPattern, shardDocs, shuffledShardIds, tags, clusterTime,
                   oidCounter, policy, made, numCalls, result, hashedArgs,
                   pipelineSource>>

SpecHashed == InitHashed /\ [][CalculateHashedSplitPoints]_vars

----------------------------------------------------------------------------
(* SplitPointsBasedSplitPolicy with the split points its caller supplies *)

\* lists of at most n keys, in any order and with repetitions
RECURSIVE KeyLists(_, _)
KeyLists(keys, n) ==
    IF n = 0 THEN {<<>>}
    ELSE KeyLists(keys, n - 1) \cup
         {Append(l, k) : l \in {x \in KeyLists(keys, n - 1) : Len(x) = n - 1},
                         k \in keys}

InitSplitPoints ==
    /\ shardKeyPattern = <<"1">>
    /\ tags = <<>>
    /\ shardDocs \in {ShardDocsOf([i \in 1..n |-> {}]) : n \in 1..MaxShards}
    /\ shuffledShardIds \in Orders(getAllShardIds(shardDocs))
    /\ clusterTime = 1
    /\ oidCounter = 0
    /\ \E splitPoints \in KeyLists({<<KeyVal(k)>> : k \in 1..MaxSplitPoints},
                                  MaxSplitPoints + 1),
          numContiguousChunksPerShard \in 1..MaxContiguous :
          policy = [kind |-> "SplitPointsBased",
                    splitPoints |-> splitPoints,
                    numContiguousChunksPerShard |-> numContiguousChunksPerShard]
    /\ made = [op |-> "SplitPointsBasedSplitPolicy", status |-> "OK"]
    /\ numCalls = 0
    /\ result = NoResult
    /\ hashedArgs = NoHashedArgs
    /\ hashedOut = NotCalled
    /\ pipelineSource = NoPipelineSource

SpecSplitPoints == InitSplitPoints /\ [][SplitPointsBasedCall]_vars

----------------------------------------------------------------------------
(* PresplitHashedZonesSplitPolicy constructed by its caller *)

PresplitPatterns == {<<"1">>, <<"hashed", "1">>, <<"1", "hashed">>, <<"1", "hashed", "1">>}

\* zone bounds, ascending.  Hashed-suffix key of two fields: every prefix
\* value with the hashed field at MinKey and at MaxKey.  Three-field key:
\* besides the bounds a presplit zone may have, a lower bound with a value
\* after the hashed field and one with a value in the hashed field.
PresplitKeys(pattern) ==
    IF pattern = <<"1", "hashed">>
    THEN <<globalMin(pattern),
           <<KeyVal(1), MinKey>>, <<KeyVal(1), MaxKey>>,
           <<KeyVal(2), MinKey>>, <<KeyVal(2), MaxKey>>,
           globalMax(pattern)>>
    ELSE IF Len(pattern) < 3 THEN BoundaryKeys(pattern)
    ELSE <<globalMin(pattern),
           <<KeyVal(1), MinKey, MinKey>>,
           <<KeyVal(1), MinKey, KeyVal(1)>>,
           <<KeyVal(1), KeyVal(1), MinKey>>,
           <<KeyVal(2), MinKey, MinKey>>,
           globalMax(pattern)>>

\* zone lists over the given keys: sorted by min, not overlapping, the first
\* zone named "A"
ZoneListsOver(keys) ==
    UNION {{[i \in 1..Len(iv) |->
                [min |-> keys[iv[i][1]], max |-> keys[iv[i][2]], tag |-> names[i]]] :
            names \in {n \in [1..Len(iv) -> ZoneNames] : Len(iv) > 0 => n[1] = "A"}} :
           iv \in IntervalLists(1, Len(keys), MaxZones)}

InitPresplit ==
    /\ shardKeyPattern \in PresplitPatterns
    /\ tags \in ZoneListsOver(PresplitKeys(shardKeyPattern))
    /\ shardDocs \in {ShardDocsOf(t) : t \in ShardDocLists(tags)}
    /\ shuffledShardIds = getAllShardIds(shardDocs)
    /\ clusterTime = 1
    /\ oidCounter = 0
    /\ policy = NoPolicy
    /\ made = NotMade
    /\ numCalls = 0
    /\ result = NoResult
    /\ hashedArgs = NoHashedArgs
    /\ hashedOut = NotCalled
    /\ pipelineSource = NoPipelineSource

\* a caller constructs the presplit policy itself
MakePresplitHashedZones ==
    /\ made = NotMade
    /\ \E numInitialChunks \in 0..MaxInitialChunks, isCollectionEmpty \in BOOLEAN :
          LET r == PresplitHashedZonesSplitPolicy(
                        shardDocs, shardKeyPattern, tags, numInitialChunks,
                        isCollectionEmpty)
          IN /\ policy' = r.policy
             /\ made' = [op |-> "PresplitHashedZonesSplitPolicy",
                         numInitialChunks |-> numInitialChunks,
                         presplitHashedZones |-> TRUE,
                         collectionIsEmpty |-> isCollectionEmpty,
                         status |-> r.status]
    /\ UNCHANGED <<shardKeyPattern, shardDocs, shuffledShardIds, tags, clusterTime,
                   oidCounter, numCalls, result, hashedArgs, hashedOut,
                   pipelineSource>>

SpecPresplit == InitPresplit /\ [][MakePresplitHashedZones \/ AbstractTagsBasedCall]_vars

----------------------------------------------------------------------------
(* SamplingBasedSplitPolicy over a source with more keys than zone bounds *)

\* what the sorted sample pipeline can yield: ascending lists, repeats
\* included, of at most MaxSampleKeyVal keys
SourceLists ==
    UNION {{[i \in 1..n |-> <<KeyVal(f[i])>>] :
            f \in {g \in [1..n -> 1..MaxSampleKeyVal] :
                     \A i \in 1..(n - 1) : g[i] <= g[i + 1]}} :
           n \in 0..MaxSampleKeyVal}

\* the split points do not depend on the shards: every shard carries every
\* zone tag in use
InitSampling ==
    /\ shardKeyPattern = <<"1">>
    /\ tags \in ZoneLists(shardKeyPattern)
    /\ shardDocs \in {ShardDocsOf([i \in 1..n |-> TagNamesOf(tags)]) : n \in 1..MaxShards}
    /\ shuffledShardIds = getAllShardIds(shardDocs)
    /\ clusterTime = 1
    /\ oidCounter = 0
    /\ policy = NoPolicy
    /\ made = NotMade
    /\ numCalls = 0
    /\ result = NoResult
    /\ hashedArgs = NoHashedArgs
    /\ hashedOut = NotCalled
    /\ pipelineSource = NoPipelineSource

MakeSamplingBasedFromSource ==
    /\ made = NotMade
    /\ \E numInitialChunks \in 0..MaxSampledChunks, hasZones \in ZonesGiven,
          samples \in SourceLists :
          LET r == SamplingBasedSplitPolicy(
                        numInitialChunks, hasZones,
                        IF hasZones THEN ShortZones(tags) ELSE <<>>, samples, 1)
          IN /\ policy' = r.policy
             /\ made' = [op |-> "SamplingBasedSplitPolicy",
                         numInitialChunks |-> numInitialChunks,
                         hasZones |-> hasZones,
                         samples |-> IF r.status = "OK" THEN samples ELSE <<>>,
                         status |-> r.status]
    /\ UNCHANGED <<shardKeyPattern, shardDocs, shuffledShardIds, tags, clusterTime,
                   oidCounter, numCalls, result, hashedArgs, hashedOut,
                   pipelineSource>>

SpecSampling == InitSampling /\ [][MakeSamplingBasedFromSource \/ SamplingBasedCall]_vars

----------------------------------------------------------------------------
(* The tags-based policies over zones that leave up to three gaps *)

\* zone bounds, ascending: every key value, with the hashed field at MinKey
\* under the hashed-suffix key
HoleKeys(pattern) ==
    <<globalMin(pattern)>>
    \o [k \in 1..MaxHoleKeyVal |->
          IF Len(pattern) = 1 THEN <<KeyVal(k)>> ELSE <<KeyVal(k), MinKey>>]
    \o <<globalMax(pattern)>>

\* the gaps do not depend on the zones' shards: every shard carries every
\* zone tag in use
InitHoles ==
    /\ shardKeyPattern \in {<<"1">>, <<"1", "hashed">>}
    /\ tags \in ZoneListsOver(HoleKeys(shardKeyPattern))
    /\ shardDocs \in {ShardDocsOf([i \in 1..n |-> TagNamesOf(tags)]) : n \in 1..MaxShards}
    /\ shuffledShardIds \in Orders(getAllShardIds(shardDocs))
    /\ clusterTime = 1
    /\ oidCounter = 0
    /\ policy = NoPolicy
    /\ made = NotMade
    /\ numCalls = 0
    /\ result = NoResult
    /\ hashedArgs = NoHashedArgs
    /\ hashedOut = NotCalled
    /\ pipelineSource = NoPipelineSource

SpecHoles == InitHoles /\ [][CalculateOptimizationStrategy \/ AbstractTagsBasedCall]_vars

----------------------------------------------------------------------------
(* SamplingBasedSplitPolicy::PipelineDocumentSource *)

\* the loop of getNext on [pipeline, val]: up to _skip further documents are
\* taken from the pipeline, each replacing val; it stops when the pipeline
\* has none left
RECURSIVE SkipSamples(_, _, _, _)
SkipSamples(pipeline, val, skippedSamples, skip) ==
    IF ~(skippedSamples < skip) \/ pipeline = <<>>
    THEN [pipeline |-> pipeline, val |-> val]
    ELSE SkipSamples(Tail(pipeline), Head(pipeline), skippedSamples + 1, skip)

\* a getNext that returns the first document it takes
PipelineDocumentSourceGetNextFirstTaken(pipeline, skip) ==
    IF pipeline = <<>> THEN [pipeline |-> pipeline, returned |-> <<>>]
    ELSE [pipeline |-> SkipSamples(Tail(pipeline), Head(pipeline), 0, skip).pipeline,
          returned |-> <<Head(pipeline)>>]

\* PipelineDocumentSource::getNext: [pipeline, returned], returned being
\* <<>> for boost::none and <<document>> otherwise
PipelineDocumentSourceGetNext(pipeline, skip) ==
    IF pipeline = <<>> THEN [pipeline |-> pipeline, returned |-> <<>>]
    ELSE [pipeline |-> SkipSamples(Tail(pipeline), Head(pipeline), 0, skip).pipeline,
          returned |-> <<SkipSamples(Tail(pipeline), Head(pipeline), 0, skip).val>>]

\* _makePipelineDocumentSource: a pipeline holding some documents in order,
\* and _skip = samplesPerChunk - 1 with samplesPerChunk > 0
InitSource ==
    /\ \E n \in 0..MaxDocuments, samplesPerChunk \in 1..MaxSamplesPerChunk :
          pipelineSource = [made |-> TRUE,
                            documents |-> [i \in 1..n |-> <<KeyVal(i)>>],
                            pipeline |-> [i \in 1..n |-> <<KeyVal(i)>>],
                            skip |-> samplesPerChunk - 1,
                            returned |-> <<>>]
    /\ shardKeyPattern = <<"1">>
    /\ tags = <<>>
    /\ shardDocs = ShardDocsOf(<<{}>>)
    /\ shuffledShardIds = getAllShardIds(shardDocs)
    /\ clusterTime = 1
    /\ oidCounter = 0
    /\ policy = NoPolicy
    /\ made = NotMade
    /\ numCalls = 0
    /\ result = NoResult
    /\ hashedArgs = NoHashedArgs
    /\ hashedOut = NotCalled

\* one call of getNext; returned lists what every call so far returned
GetNext ==
    /\ pipelineSource.made
    /\ Len(pipelineSource.returned) < MaxGetNext
    /\ LET r == PipelineDocumentSourceGetNext(pipelineSource.pipeline,
                                              pipelineSource.skip)
       IN pipelineSource' = [pipelineSource EXCEPT
                                !.pipeline = r.pipeline,
                                !.returned = Append(@, r.returned)]
    /\ UNCHANGED <<shardKeyPattern, shardDocs, shuffledShardIds, tags, clusterTime,
                   oidCounter, policy, made, numCalls, result, hashedArgs, hashedOut>>

SpecSource == InitSource /\ [][GetNext]_vars

----------------------------------------------------------------------------
(* Properties *)

\* the last createFirstChunks call returned a layout
Succeeded == numCalls > 0 /\ result.status = "OK"

Inventory == Range(getAllShardIds(shardDocs))

TagsOfShard(shardId) ==
    UNION {shardDocs[i].tags : i \in {j \in 1..Len(shardDocs) : shardDocs[j].name = shardId}}

TilesKeySpace(pattern, chunks) ==
    /\ chunks # <<>>
    /\ chunks[1].min = globalMin(pattern)
    /\ chunks[Len(chunks)].max = globalMax(pattern)
    /\ \A i \in 1..(Len(chunks) - 1) : chunks[i].max = chunks[i + 1].min
    /\ \A i \in 1..Len(chunks) : KeyLess(chunks[i].min, chunks[i].max)

ChunkBoundaries(chunks) ==
    {chunks[i].min : i \in 1..Len(chunks)} \cup {chunks[i].max : i \in 1..Len(chunks)}

ZoneAligned(pattern, zones, chunks) ==
    /\ \A z \in 1..Len(zones) :
          /\ zones[z].min \in ChunkBoundaries(chunks) \cup {globalMin(pattern)}
          /\ zones[z].max \in ChunkBoundaries(chunks) \cup {globalMax(pattern)}
    /\ \A z \in 1..Len(zones), i \in 1..Len(chunks) :
          KeyLeq(zones[z].min, chunks[i].min) /\ KeyLeq(chunks[i].max, zones[z].max)
             => zones[z].tag \in TagsOfShard(chunks[i].shard)

\* C1: whenever createFirstChunks of any of the six policies returns a
\* layout (zones sorted and not overlapping, shard ranges ascending,
\* contiguous and covering the key space), the chunk list is not empty, it
\* starts at globalMin, ends at globalMax, every chunk ends where the next one
\* starts, and every chunk has min < max.
C1_ChunksTileKeySpace == Succeeded => TilesKeySpace(shardKeyPattern, result.chunks)

\* a zoned layout with hole chunks, and a shard distribution cut by a zone
C1_Witness ==
    /\ Succeeded
    /\ policy.kind = "ShardDistribution"
    /\ policy.hasZones
    /\ Len(result.chunks) > Len(policy.shardDistribution)

\* C2: in the output of one createFirstChunks call every chunk carries the
\* same epoch and timestamp, and the i-th chunk emitted (from 0) has version
\* (1, i).
C2_VersionsCountUp ==
    Succeeded =>
        \A i \in 1..Len(result.chunks) :
            result.chunks[i].version =
                [epoch |-> result.chunks[1].version.epoch,
                 timestamp |-> result.chunks[1].version.timestamp,
                 major |-> 1, minor |-> i - 1]

C2_Witness == Succeeded /\ Len(result.chunks) >= 3

\* C3: whenever createFirstChunks of a zone-aware policy (SingleChunkPerTag,
\* PresplitHashedZones, SamplingBased with zones, ShardDistribution with
\* zones) returns a layout, every zone bound is a chunk boundary (or globalMin
\* / globalMax) and every chunk lying inside a zone is on a shard that carries
\* the zone's tag.
C3_ZoneAwarePoliciesAlign ==
    /\ Succeeded
    /\ tags # <<>>
    /\ policy.kind \in {"SingleChunkPerTag", "PresplitHashedZones", "SamplingBased",
                        "ShardDistribution"}
    => ZoneAligned(shardKeyPattern, tags, result.chunks)

C3_Witness ==
    /\ Succeeded
    /\ policy.kind = "SamplingBased"
    /\ policy.hasZones
    /\ Len(tags) = 2
    /\ Len(result.chunks) >= 3

\* C4 as stated: for every call of calculateOptimizationStrategy with zones
\* that returns a policy, whether the collection is empty or not, the chunks
\* of the policy's createFirstChunks are aligned with the zones.
C4_SelectorAlwaysAligns ==
    /\ made.op = "calculateOptimizationStrategy"
    /\ tags # <<>>
    /\ Succeeded
    => ZoneAligned(shardKeyPattern, tags, result.chunks)

\* C4 amended: for every call of calculateOptimizationStrategy with zones and
\* an empty collection that returns a policy, the chunks of the policy's
\* createFirstChunks are aligned with the zones; for a collection that is not
\* empty the policy is SingleChunkOnPrimary, whose one chunk ignores the zones.
C4_SelectorAlignsEmptyCollection ==
    /\ made.op = "calculateOptimizationStrategy"
    /\ tags # <<>>
    /\ Succeeded
    => /\ made.collectionIsEmpty =>
            ZoneAligned(shardKeyPattern, tags, result.chunks)
       /\ ~made.collectionIsEmpty =>
            /\ policy.kind = "SingleChunkOnPrimary"
            /\ Len(result.chunks) = 1

C4_Witness ==
    /\ made.op = "calculateOptimizationStrategy"
    /\ made.collectionIsEmpty
    /\ Len(tags) = 2
    /\ Succeeded
    /\ Len(result.chunks) >= 3

\* C5: calculateOptimizationStrategy, when it returns a policy, returns
\* PresplitHashedZones if presplitHashedZones is set; else SplitPointsBased if
\* there are no zones, the key has a hashed prefix and the collection is
\* empty; else SingleChunkPerTag if there are zones and the collection is
\* empty; else SingleChunkOnPrimary; never SamplingBased or ShardDistribution.
C5_DecisionTable ==
    made.op = "calculateOptimizationStrategy" /\ made.status = "OK" =>
        policy.kind =
            IF made.presplitHashedZones THEN "PresplitHashedZones"
            ELSE IF tags = <<>> /\ hasHashedPrefix(shardKeyPattern)
                    /\ made.collectionIsEmpty
            THEN "SplitPointsBased"
            ELSE IF tags # <<>> /\ made.collectionIsEmpty THEN "SingleChunkPerTag"
            ELSE "SingleChunkOnPrimary"

C5_Witness ==
    /\ made.op = "calculateOptimizationStrategy"
    /\ made.status = "OK"
    /\ ~made.presplitHashedZones
    /\ policy.kind = "SingleChunkPerTag"
    /\ hasHashedPrefix(shardKeyPattern)

\* C6: calculateOptimizationStrategy fails with InvalidOptions, whatever the
\* constructor of a policy would have said, exactly when numInitialChunks is
\* not zero and the key has no hashed field, or the collection is not empty,
\* or the key is hashed-suffix and presplitHashedZones is false; never when
\* numInitialChunks is zero.
C6_InvalidOptionsExactly ==
    made.op = "calculateOptimizationStrategy" =>
        (made.status = "InvalidOptions" <=>
            /\ made.numInitialChunks # 0
            /\ \/ ~isHashedPattern(shardKeyPattern)
               \/ ~made.collectionIsEmpty
               \/ /\ isHashedPattern(shardKeyPattern)
                  /\ ~hasHashedPrefix(shardKeyPattern)
                  /\ ~made.presplitHashedZones)

\* InvalidOptions where the constructor of PresplitHashedZones would have
\* failed with 31387
C6_Witness ==
    /\ made.op = "calculateOptimizationStrategy"
    /\ made.status = "InvalidOptions"
    /\ made.presplitHashedZones
    /\ isHashedPattern(shardKeyPattern)
    /\ ~made.collectionIsEmpty

\* C7: every shard a policy assigns to a chunk is in the shard inventory (to
\* which the shards of every zone belong), ShardDistribution with and without
\* zones included.
C7_ShardsInInventory ==
    Succeeded => \A i \in 1..Len(result.chunks) : result.chunks[i].shard \in Inventory

\* C7, what the code ensures: every shard a policy assigns to a chunk is in
\* the shard inventory, except that ShardDistribution without zones places
\* its chunks on the shards of the caller's range list, whatever they are.
C7_ShardsInInventoryOrRangeList ==
    Succeeded =>
        \A i \in 1..Len(result.chunks) :
            IF policy.kind = "ShardDistribution" /\ ~policy.hasZones
            THEN result.chunks[i].shard \in
                    {policy.shardDistribution[j].shard :
                        j \in 1..Len(policy.shardDistribution)}
            ELSE result.chunks[i].shard \in Inventory

\* a chunk of a ShardDistribution without zones on a shard that config.shards
\* does not hold
C7_Witness ==
    /\ Succeeded
    /\ policy.kind = "ShardDistribution"
    /\ ~policy.hasZones
    /\ \E i \in 1..Len(result.chunks) : result.chunks[i].shard = ForeignShard

\* the hashed values of the claim's closed form, I = (INT64_MAX / n) * 2
IntervalOf(n) == LongMulSmallExact(LongDivSmall(LLongMax, n), 2)

ExpectedHashedValues(n) ==
    IF n % 2 = 0
    THEN {LongMulSmallExact(IntervalOf(n), k) : k \in 0..((n \div 2) - 1)}
         \cup {LongNeg(LongMulSmallExact(IntervalOf(n), k)) : k \in 0..((n \div 2) - 1)}
    ELSE {LongAddExact(LongDivSmall(IntervalOf(n), 2),
                       LongMulSmallExact(IntervalOf(n), k)) : k \in 0..((n - 3) \div 2)}
         \cup {LongNeg(LongAddExact(LongDivSmall(IntervalOf(n), 2),
                                    LongMulSmallExact(IntervalOf(n), k))) :
                  k \in 0..((n - 3) \div 2)}

\* C8: calculateHashedSplitPoints(pattern, prefix, n) returns n - 1 split
\* points in strictly ascending order, each the prefix, a hashed value and
\* MinKey in the fields after it, and the hashed values are those of the
\* closed form: k * I for |k| <= n/2 - 1 when n is even, +-(I/2 + k * I) for
\* 0 <= k <= (n - 3)/2 when n is odd; no step of the computation leaves the
\* signed 64-bit range.
C8_HashedSplitPoints ==
    hashedOut.called =>
        LET n == hashedArgs.numInitialChunks
            points == hashedOut.splitPoints
        IN /\ ~hashedOut.ub
           /\ Len(points) = n - 1
           /\ \A i \in 1..(Len(points) - 1) : KeyLess(points[i], points[i + 1])
           /\ {p[HashedFieldIndex(hashedArgs.pattern)] : p \in Range(points)}
                 = {NumberLong(v) : v \in ExpectedHashedValues(n)}
           /\ \A p \in Range(points) :
                 /\ Len(p) = Len(hashedArgs.pattern)
                 /\ SubSeq(p, 1, Len(hashedArgs.prefix)) = hashedArgs.prefix
                 /\ \A j \in (HashedFieldIndex(hashedArgs.pattern) + 1)..Len(p) :
                       IsMinKey(p[j])

C8_Witness ==
    /\ hashedOut.called
    /\ hashedArgs.numInitialChunks >= 5
    /\ hashedArgs.numInitialChunks % 2 = 1
    /\ Len(hashedArgs.pattern) = 3

\* C9: SplitPointsBased with p distinct split points among those supplied
\* emits p + 1 chunks bounded by the distinct points in ascending order, and
\* chunk i (from 0) is on shards[(i / numContiguousChunksPerShard) % |shards|],
\* shards being the shuffled inventory.
C9_SplitPointsBasedLayout ==
    Succeeded /\ policy.kind = "SplitPointsBased" =>
        LET points == Range(policy.splitPoints)
            p == Cardinality(points)
        IN /\ Len(result.chunks) = p + 1
           /\ \A i \in 0..p :
                 result.chunks[i + 1].shard =
                    shuffledShardIds[((i \div policy.numContiguousChunksPerShard)
                                        % Len(shuffledShardIds)) + 1]
           /\ \A i \in 1..p :
                 /\ result.chunks[i + 1].min \in points
                 /\ Cardinality({k \in points :
                                    KeyLess(k, result.chunks[i + 1].min)}) = i - 1

\* repeated and unsorted split points, two chunks on each of two shards
C9_Witness ==
    /\ Succeeded
    /\ policy.kind = "SplitPointsBased"
    /\ policy.numContiguousChunksPerShard = 2
    /\ Len(shuffledShardIds) = 2
    /\ Len(result.chunks) = 4
    /\ Len(policy.splitPoints) > Cardinality(Range(policy.splitPoints))
    /\ KeyLess(policy.splitPoints[2], policy.splitPoints[1])

\* the ranges of the zone list before range j that carry the name of range j
EarlierRangesOfZone(zones, j) == {i \in 1..(j - 1) : zones[i].tag = zones[j].tag}

RangesOfZone(zones, name) == {i \in 1..Len(zones) : zones[i].tag = name}

\* C10: SingleChunkPerTag emits exactly one chunk [z.min, z.max) for every
\* range of the zone list, and the k-th range (from 0) of a zone name is on
\* shardsForZone[k mod |shardsForZone|] in the first call on the policy; in
\* call number c the count starts at (c - 1) times the number of ranges of
\* the name.  Ranges of other names and hole chunks do not count.
C10_SingleChunkPerTagRoundRobin ==
    Succeeded /\ policy.kind = "SingleChunkPerTag" =>
        \A j \in 1..Len(tags) :
            LET mine == {i \in 1..Len(result.chunks) :
                            /\ result.chunks[i].min = tags[j].min
                            /\ result.chunks[i].max = tags[j].max}
                shardsForZone == policy.tagToShardIds[tags[j].tag]
                k == (numCalls - 1) * Cardinality(RangesOfZone(tags, tags[j].tag))
                        + Cardinality(EarlierRangesOfZone(tags, j))
            IN /\ Cardinality(mine) = 1
               /\ \A i \in mine :
                     result.chunks[i].shard =
                        shardsForZone[(k % Len(shardsForZone)) + 1]
               /\ Cardinality({i \in 1..Len(result.chunks) :
                                  /\ KeyLeq(tags[j].min, result.chunks[i].min)
                                  /\ KeyLeq(result.chunks[i].max, tags[j].max)}) = 1

\* two ranges of one zone name on two shards, with a hole chunk between them
C10_Witness ==
    /\ Succeeded
    /\ numCalls = 1
    /\ policy.kind = "SingleChunkPerTag"
    /\ Len(tags) = 2
    /\ tags[1].tag = tags[2].tag
    /\ Len(policy.tagToShardIds[tags[1].tag]) = 2
    /\ Len(result.chunks) >= 3
    /\ \E i, j \in 1..Len(result.chunks) :
          /\ result.chunks[i].min = tags[1].min
          /\ result.chunks[j].min = tags[2].min
          /\ result.chunks[i].shard # result.chunks[j].shard

\* the checks of a hashed-suffix zone that fail, by their codes
FailingChecks(pattern, zone) ==
    LET h == HashedFieldIndex(pattern)
    IN {c \in {"Location31388"} :
            \E i \in 1..(h - 1) : zone.min[i][1] # 0}
       \cup {c \in {"Location31390"} :
            \A i \in 1..(h - 1) : zone.min[i] = zone.max[i]}
       \cup {c \in {"Location31389"} : zone.min[h] # MinKey}
       \cup {c \in {"Location31391"} :
            \E i \in (h + 1)..Len(pattern) : zone.min[i] # MinKey}

CheckOrder == <<"Location31388", "Location31390", "Location31389", "Location31391">>

FirstFailingCheck(codes) ==
    CheckOrder[CHOOSE k \in 1..Len(CheckOrder) :
                  /\ CheckOrder[k] \in codes
                  /\ \A j \in 1..(k - 1) : CheckOrder[j] \notin codes]

\* the outcome the validation rules give for the arguments of the constructor
ExpectedPresplitStatus ==
    IF ~(made.collectionIsEmpty /\ tags # <<>> /\ "hashed" \in Range(shardKeyPattern))
    THEN "Location31387"
    ELSE IF shardKeyPattern[1] = "hashed"
    THEN IF /\ Len(tags) = 1
            /\ tags[1].min = globalMin(shardKeyPattern)
            /\ tags[1].max = globalMax(shardKeyPattern)
         THEN "OK" ELSE "Location31412"
    ELSE IF \A z \in 1..Len(tags) : FailingChecks(shardKeyPattern, tags[z]) = {}
    THEN "OK"
    ELSE FirstFailingCheck(
            FailingChecks(shardKeyPattern,
                          tags[CHOOSE z \in 1..Len(tags) :
                                  /\ FailingChecks(shardKeyPattern, tags[z]) # {}
                                  /\ \A y \in 1..(z - 1) :
                                        FailingChecks(shardKeyPattern, tags[y]) = {}]))

\* C11: with a shard inventory that is not empty, the construction of
\* PresplitHashedZones succeeds exactly when the collection is empty, there
\* are zones, the key has a hashed field and the zones pass the checks
\* (31412 for a hashed-prefix key; 31388, 31390, 31389, 31391 in this order
\* for a zone of a hashed-suffix key); 31387 when the first condition fails.
C11_PresplitSucceedsExactly ==
    made.op = "PresplitHashedZonesSplitPolicy" => made.status = ExpectedPresplitStatus

\* C11, what the code ensures: the constructor reports the code the rules
\* give, and where they give none it succeeds if some zone's tag has a shard
\* and fails its invariant on _numTagsPerShard if none has.
C11_PresplitValidation ==
    made.op = "PresplitHashedZonesSplitPolicy" =>
        IF ExpectedPresplitStatus # "OK" THEN made.status = ExpectedPresplitStatus
        ELSE IF \E z \in 1..Len(tags), d \in 1..Len(shardDocs) :
                    tags[z].tag \in shardDocs[d].tags
        THEN made.status = "OK"
        ELSE made.status = "invariant"

\* zones that pass every check, none of them assigned to a shard
C11_Witness ==
    /\ made.op = "PresplitHashedZonesSplitPolicy"
    /\ ExpectedPresplitStatus = "OK"
    /\ made.status = "invariant"

\* the effective numInitialChunks of the constructed PresplitHashedZones policy
EffectiveNumInitialChunks ==
    IF made.numInitialChunks # 0 THEN made.numInitialChunks
    ELSE 2 * Cardinality(DOMAIN policy.numTagsPerShard)

CeilDiv(x, y) == (x + y - 1) \div y

\* the chunks of a layout lying inside a zone's range and placed on a shard
ChunksOfZoneOnShard(chunks, zone, shardId) ==
    {i \in 1..Len(chunks) :
        /\ KeyLeq(zone.min, chunks[i].min)
        /\ KeyLeq(chunks[i].max, zone.max)
        /\ chunks[i].shard = shardId}

\* C12: createFirstChunks of a validated PresplitHashedZones policy with
\* effective numInitialChunks N produces at least N chunks, and for every
\* zone and every shard assigned to the zone the number of chunks of the
\* zone's range on the shard is
\* ceil(ceil(N / |numTagsPerShard|) / numTagsPerShard[s]), which is at least 1.
C12_PresplitChunkCounts ==
    /\ Succeeded
    /\ made.op = "PresplitHashedZonesSplitPolicy"
    => /\ Len(result.chunks) >= EffectiveNumInitialChunks
       /\ \A z \in 1..Len(tags) :
            \A s \in Range(buildTagsToShardIdsMap(shardDocs, tags)[tags[z].tag]) :
               LET count == Cardinality(ChunksOfZoneOnShard(result.chunks, tags[z], s))
               IN /\ count >= 1
                  /\ count =
                       CeilDiv(CeilDiv(EffectiveNumInitialChunks,
                                       Cardinality(DOMAIN policy.numTagsPerShard)),
                               policy.numTagsPerShard[s])

\* a zone on two shards that get different numbers of chunks
C12_Witness ==
    /\ Succeeded
    /\ made.op = "PresplitHashedZonesSplitPolicy"
    /\ \E z \in 1..Len(tags) :
         \E s, t \in Range(buildTagsToShardIdsMap(shardDocs, tags)[tags[z].tag]) :
            Cardinality(ChunksOfZoneOnShard(result.chunks, tags[z], s))
               > Cardinality(ChunksOfZoneOnShard(result.chunks, tags[z], t))

\* the shards of scenario 4: the first zone's tag on S1 and S2, the second
\* zone's tag on S2 only, under the key {c: 1, h: "hashed"} with
\* numInitialChunks = 0 and an empty collection
Scenario4Shards(zUS, zEU) ==
    /\ shardKeyPattern = <<"1", "hashed">>
    /\ Len(tags) = 2
    /\ {zUS, zEU} = {1, 2}
    /\ tags[zUS].tag # tags[zEU].tag
    /\ shardDocs = <<[name |-> "S1", tags |-> {tags[zUS].tag}],
                     [name |-> "S2", tags |-> {tags[zUS].tag, tags[zEU].tag}]>>
    /\ made.op = "PresplitHashedZonesSplitPolicy"
    /\ made.numInitialChunks = 0
    /\ made.collectionIsEmpty

\* the results scenario 4 lists: the policy's fields and, after
\* createFirstChunks, the chunks of the two zones
Scenario4Results(zUS, zEU) ==
    /\ made.status = "OK"
    /\ policy.numTagsPerShard = [s \in {"S1", "S2"} |-> IF s = "S1" THEN 1 ELSE 2]
    /\ policy.numInitialChunks = 4
    /\ numCalls > 0 =>
         /\ result.status = "OK"
         /\ \E i \in 1..(Len(result.chunks) - 2) :
               /\ result.chunks[i].min = tags[zUS].min
               /\ result.chunks[i + 2].max = tags[zUS].max
               /\ result.chunks[i].shard = "S1"
               /\ result.chunks[i + 1].shard = "S1"
               /\ result.chunks[i + 2].shard = "S2"
               /\ \A j \in {i, i + 1} :
                     /\ result.chunks[j].max[1] = tags[zUS].min[1]
                     /\ result.chunks[j].max[2][1] = 0
         /\ \E i \in 1..Len(result.chunks) :
               /\ result.chunks[i].min = tags[zEU].min
               /\ result.chunks[i].max = tags[zEU].max
               /\ result.chunks[i].shard = "S2"

\* a zone whose bounds carry the same prefix value and span the hashed field
\* from MinKey to MaxKey
SamePrefixZone(zone) ==
    /\ zone.min[2] = MinKey
    /\ zone.max[2] = MaxKey
    /\ zone.min[1] = zone.max[1]
    /\ zone.min[1][1] = 0

\* a zone from a prefix value with the hashed field at MinKey up to a bound
\* with another prefix
OtherPrefixZone(zone) ==
    /\ zone.min[2] = MinKey
    /\ zone.min[1] # zone.max[1]
    /\ zone.min[1][1] = 0

\* C13 as stated: scenario 4 with zones ZUS and ZEU whose lower and upper
\* bounds carry the same prefix value is accepted and gives
\* numTagsPerShard = {S1: 1, S2: 2}, numInitialChunks = 4, three chunks for
\* ZUS (two on S1, one on S2, two hashed split points) and one chunk for ZEU
\* on S2.
C13_Scenario4SamePrefix ==
    \A zUS, zEU \in 1..Len(tags) :
        /\ Scenario4Shards(zUS, zEU)
        /\ SamePrefixZone(tags[zUS])
        /\ SamePrefixZone(tags[zEU])
        => Scenario4Results(zUS, zEU)

\* C13 amended: scenario 4 gives the results listed when each zone runs from
\* {c: v, h: MinKey} to a bound whose prefix differs from v; zones whose
\* bounds carry the same prefix value are rejected with 31390.
C13_Scenario4OtherPrefix ==
    \A zUS, zEU \in 1..Len(tags) :
        /\ (/\ Scenario4Shards(zUS, zEU)
            /\ OtherPrefixZone(tags[zUS])
            /\ OtherPrefixZone(tags[zEU])
            => Scenario4Results(zUS, zEU))
        /\ (/\ Scenario4Shards(zUS, zEU)
            /\ SamePrefixZone(tags[zUS])
            /\ SamePrefixZone(tags[zEU])
            => made.status = "Location31390")

\* the amended scenario after createFirstChunks
C13_Witness ==
    /\ Succeeded
    /\ \E zUS, zEU \in 1..Len(tags) :
          /\ Scenario4Shards(zUS, zEU)
          /\ OtherPrefixZone(tags[zUS])
          /\ OtherPrefixZone(tags[zEU])
          /\ Len(result.chunks) >= 4

\* the distinct zone boundaries of the sampling policy, globalMin and
\* globalMax left out
SamplingZoneBoundaries ==
    ({extendRangeBound(shardKeyPattern, policy.zones[z].min) : z \in 1..Len(policy.zones)}
     \cup {extendRangeBound(shardKeyPattern, policy.zones[z].max) : z \in 1..Len(policy.zones)})
    \ {globalMin(shardKeyPattern), globalMax(shardKeyPattern)}

\* the distinct keys the source has left to yield that are no zone boundary
FreshSampleKeys == Range(policy.samples) \ SamplingZoneBoundaries

NotEnoughSplitPoints ==
    Cardinality(SamplingZoneBoundaries) + Cardinality(FreshSampleKeys)
        < policy.numInitialChunks - 1

\* C14: createFirstSplitPoints of the sampling policy fails with 4952606
\* exactly when the distinct zone boundaries (globalMin and globalMax left
\* out) plus the distinct keys of the source that are not among them number
\* less than numInitialChunks - 1; otherwise the set returned holds every zone
\* boundary and at least numInitialChunks - 1 points, and the chunks of a
\* successful createFirstChunks are cut at exactly these points.  With
\* numInitialChunks = 10, four distinct keys and no zones it fails.
C14_SamplingSplitPoints ==
    [][SamplingBasedCall =>
         LET first == createFirstSplitPoints(policy, shardKeyPattern)
         IN /\ first.status = "Location4952606" <=> NotEnoughSplitPoints
            /\ result'.status = "Location4952606" <=> NotEnoughSplitPoints
            /\ ~NotEnoughSplitPoints =>
                 /\ first.status = "OK"
                 /\ SamplingZoneBoundaries \subseteq Range(first.splitPoints)
                 /\ Len(first.splitPoints) >= policy.numInitialChunks - 1
                 /\ Cardinality(Range(first.splitPoints)) = Len(first.splitPoints)
                 /\ result'.status = "OK" =>
                      ChunkBoundaries(result'.chunks) =
                          Range(first.splitPoints)
                          \cup {globalMin(shardKeyPattern), globalMax(shardKeyPattern)}
            /\ (/\ policy.numInitialChunks = 10
                /\ Cardinality(Range(policy.samples)) = 4
                /\ ~policy.hasZones)
               => result'.status = "Location4952606"]_vars

\* numInitialChunks = 10 over a source of four distinct keys, no zones
C14_Witness ==
    /\ numCalls = 1
    /\ made.op = "SamplingBasedSplitPolicy"
    /\ made.numInitialChunks = 10
    /\ Cardinality(Range(made.samples)) = 4
    /\ ~made.hasZones
    /\ result.status = "Location4952606"

\* the shards config.shards lists for a tag, in the order of config.shards
ShardsCarrying(tag) ==
    LET carrying == {d \in 1..Len(shardDocs) : tag \in shardDocs[d].tags}
        IsCarrying(name) == \E d \in carrying : shardDocs[d].name = name
    IN SelectSeq(getAllShardIds(shardDocs), IsCarrying)

\* the shard list of a chunk of the sampling policy: the shards of the zone
\* holding the chunk, the shuffled inventory when no zone holds it
ShardListOfChunk(chunk) ==
    LET holding == {z \in 1..Len(policy.zones) :
                       /\ policy.hasZones
                       /\ KeyLeq(policy.zones[z].min, chunk.min)
                       /\ KeyLeq(chunk.max, policy.zones[z].max)}
    IN IF holding = {} THEN shuffledShardIds
       ELSE ShardsCarrying(policy.zones[CHOOSE z \in holding : TRUE].tag)

\* the chunks placed on a shard before the i-th chunk
PlacedBefore(chunks, i, shardId) ==
    Cardinality({j \in 1..(i - 1) : chunks[j].shard = shardId})

\* the index in a shard list of the first shard with the least count
FirstLeast(chunks, i, shards) ==
    CHOOSE k \in 1..Len(shards) :
        /\ \A m \in 1..Len(shards) :
              PlacedBefore(chunks, i, shards[k]) <= PlacedBefore(chunks, i, shards[m])
        /\ \A m \in 1..(k - 1) :
              PlacedBefore(chunks, i, shards[m]) > PlacedBefore(chunks, i, shards[k])

\* C15: createFirstChunks of the sampling policy places each chunk, in
\* ascending key order, on the first shard of the shard list of the chunk's
\* zone (the shuffled inventory when the chunk is in no zone) that has the
\* least number of chunks placed so far in this call, over all zones; once
\* the split points are found it fails with 4952607 exactly when some zone's
\* shard list is empty.
C15_SamplingPlacement ==
    /\ numCalls > 0
    /\ policy.kind = "SamplingBased"
    /\ result.status # "Location4952606"
    => /\ result.status \in {"OK", "Location4952607"}
       /\ result.status = "Location4952607" <=>
             /\ policy.hasZones
             /\ \E z \in 1..Len(policy.zones) : ShardsCarrying(policy.zones[z].tag) = <<>>
       /\ result.status = "OK" =>
             \A i \in 1..Len(result.chunks) :
                LET shards == ShardListOfChunk(result.chunks[i])
                IN /\ shards # <<>>
                   /\ result.chunks[i].shard = shards[FirstLeast(result.chunks, i, shards)]

\* a chunk that goes to a later shard of its list because the first has more
C15_Witness ==
    /\ Succeeded
    /\ policy.kind = "SamplingBased"
    /\ policy.hasZones
    /\ \E i \in 1..Len(result.chunks) :
          LET shards == ShardListOfChunk(result.chunks[i])
          IN /\ Len(shards) = 2
             /\ shards # shuffledShardIds
             /\ result.chunks[i].shard = shards[2]

\* the bounds of the shard ranges and of the zones of the distribution policy
ShardRangeBoundaries ==
    {extendRangeBound(shardKeyPattern, policy.shardDistribution[r].min) :
        r \in 1..Len(policy.shardDistribution)}
    \cup {extendRangeBound(shardKeyPattern, policy.shardDistribution[r].max) :
        r \in 1..Len(policy.shardDistribution)}

DistributionZoneBoundaries ==
    {extendRangeBound(shardKeyPattern, policy.zones[z].min) : z \in 1..Len(policy.zones)}
    \cup {extendRangeBound(shardKeyPattern, policy.zones[z].max) : z \in 1..Len(policy.zones)}

\* the shard ranges a chunk lies within
RangesHolding(chunk) ==
    {r \in 1..Len(policy.shardDistribution) :
        /\ KeyLeq(extendRangeBound(shardKeyPattern, policy.shardDistribution[r].min),
                  chunk.min)
        /\ KeyLeq(chunk.max,
                  extendRangeBound(shardKeyPattern, policy.shardDistribution[r].max))}

\* the split points createFirstChunks passes to _appendChunks, one by one
DistributionSplitPoints ==
    extractSplitPointsFromZones(
        shardKeyPattern,
        IF policy.hasZones THEN ExtendZones(shardKeyPattern, policy.zones)
        ELSE policy.zones)
    \o <<globalMax(shardKeyPattern)>>

\* shardDistributionIdx after the first k calls of _appendChunks
ShardDistributionIdxAfter(k) ==
    AppendChunksForAll(policy, shardKeyPattern, SubSeq(DistributionSplitPoints, 1, k),
                       [out |-> NoChunks(oidCounter + 1, clusterTime),
                        shardDistributionIdx |-> 0]).shardDistributionIdx

\* C16: createFirstChunks of the distribution policy, given shard ranges
\* that are ascending, contiguous and cover the key space: the chunk
\* boundaries are the shard-range boundaries together with the zone
\* boundaries, every chunk lies within exactly one shard range and is on that
\* range's shard, and the shard-range index never moves backwards and ends at
\* the length of the list.
C16_ShardDistributionLayout ==
    [][ShardDistributionCall /\ policy.shardDistribution[1].hasMin =>
         /\ \A k \in 1..Len(DistributionSplitPoints) :
               ShardDistributionIdxAfter(k - 1) <= ShardDistributionIdxAfter(k)
         /\ ShardDistributionIdxAfter(Len(DistributionSplitPoints))
               = Len(policy.shardDistribution)
         /\ result'.status = "OK" =>
               /\ ChunkBoundaries(result'.chunks)
                     = ShardRangeBoundaries \cup DistributionZoneBoundaries
               /\ \A i \in 1..Len(result'.chunks) :
                     /\ Cardinality(RangesHolding(result'.chunks[i])) = 1
                     /\ \A r \in RangesHolding(result'.chunks[i]) :
                           result'.chunks[i].shard = policy.shardDistribution[r].shard]_vars

\* two shard ranges on different shards, one of them cut by a zone boundary
C16_Witness ==
    /\ Succeeded
    /\ policy.kind = "ShardDistribution"
    /\ policy.hasZones
    /\ Len(policy.shardDistribution) = 2
    /\ policy.shardDistribution[1].shard # policy.shardDistribution[2].shard
    /\ Len(result.chunks) = 3

\* the chunks the loops of createFirstChunks emit before the check
EmittedChunks ==
    AppendChunksForAll(policy, shardKeyPattern, DistributionSplitPoints,
                       [out |-> NoChunks(oidCounter, clusterTime),
                        shardDistributionIdx |-> 0]).out.chunks

\* some emitted chunk lies in a zone whose tag its shard does not carry
SomeChunkOffZone ==
    \E i \in 1..Len(EmittedChunks), z \in 1..Len(policy.zones) :
        /\ KeyLeq(extendRangeBound(shardKeyPattern, policy.zones[z].min),
                  EmittedChunks[i].min)
        /\ KeyLeq(EmittedChunks[i].max,
                  extendRangeBound(shardKeyPattern, policy.zones[z].max))
        /\ policy.zones[z].tag \notin TagsOfShard(EmittedChunks[i].shard)

\* C17: createFirstChunks of the distribution policy with zones fails with
\* InvalidOptions and returns no layout whenever some emitted chunk lies in a
\* zone whose tag the chunk's shard does not carry; without zones the check is
\* not made and the emitted chunks are returned.
C17_ShardsMatchZones ==
    /\ numCalls > 0
    /\ policy.kind = "ShardDistribution"
    /\ policy.shardDistribution[1].hasMin
    => /\ policy.hasZones /\ SomeChunkOffZone =>
             result.status = "InvalidOptions" /\ result.chunks = <<>>
       /\ ~policy.hasZones =>
             /\ result.status = "OK"
             /\ [i \in 1..Len(result.chunks) |->
                    [min |-> result.chunks[i].min, max |-> result.chunks[i].max,
                     shard |-> result.chunks[i].shard]]
                = [i \in 1..Len(EmittedChunks) |->
                    [min |-> EmittedChunks[i].min, max |-> EmittedChunks[i].max,
                     shard |-> EmittedChunks[i].shard]]

\* one zone over the whole key space, carried only by a shard that has no
\* range of the distribution
C17_Witness ==
    /\ numCalls > 0
    /\ policy.kind = "ShardDistribution"
    /\ policy.hasZones
    /\ Len(policy.zones) = 1
    /\ policy.zones[1].min = globalMin(shardKeyPattern)
    /\ policy.zones[1].max = globalMax(shardKeyPattern)
    /\ Len(policy.shardDistribution) = 2
    /\ \A r \in 1..2 :
          policy.zones[1].tag \notin TagsOfShard(policy.shardDistribution[r].shard)
    /\ \E d \in 1..Len(shardDocs) : policy.zones[1].tag \in shardDocs[d].tags
    /\ result.status = "InvalidOptions"
    /\ result.chunks = <<>>

\* the chunk ranges and the shard assignment of a result, versions aside
LayoutOf(res) ==
    [status |-> res.status,
     chunks |-> [i \in 1..Len(res.chunks) |->
                    [min |-> res.chunks[i].min, max |-> res.chunks[i].max,
                     shard |-> res.chunks[i].shard]]]

\* the second createFirstChunks call on a policy object, with the params of
\* the first: the primary shard, which only SingleChunkOnPrimary reads and
\* which is the shard of its chunk, is the same
SecondCall ==
    /\ numCalls = 1
    /\ numCalls' = 2
    /\ policy.kind = "SingleChunkOnPrimary" =>
          result'.chunks[1].shard = result.chunks[1].shard

\* C18 as stated: a second createFirstChunks call on the same policy object,
\* with the same inventory, shuffled order, zones and key pattern, returns
\* the chunk ranges and the shard assignment of the first call, for every
\* policy, SingleChunkPerTag with its round-robin counter included.
C18_SecondCallSameLayout ==
    [][SecondCall => LayoutOf(result') = LayoutOf(result)]_vars

\* C18, what the code ensures: the second call repeats the first for the
\* policies that keep nothing between calls; SingleChunkPerTag keeps
\* _nextShardIndexForZone and SamplingBased keeps the position of its source.
C18_SecondCallSameLayoutStateless ==
    [][SecondCall /\ policy.kind \notin {"SingleChunkPerTag", "SamplingBased"}
          => LayoutOf(result') = LayoutOf(result)]_vars

\* the second call of SingleChunkPerTag with one zone on two shards: the
\* zone's chunk is on the second shard of the zone, not on the first
C18_Witness ==
    /\ numCalls = 2
    /\ Succeeded
    /\ policy.kind = "SingleChunkPerTag"
    /\ Len(tags) = 1
    /\ Len(ShardsCarrying(tags[1].tag)) = 2
    /\ \E i \in 1..Len(result.chunks) :
          /\ result.chunks[i].min = tags[1].min
          /\ result.chunks[i].max = tags[1].max
          /\ result.chunks[i].shard = ShardsCarrying(tags[1].tag)[2]

\* the ranges before each zone and after the last one, empty ones included
GapCandidates ==
    [z \in 1..(Len(tags) + 1) |->
        [min |-> IF z = 1 THEN globalMin(shardKeyPattern) ELSE tags[z - 1].max,
         max |-> IF z <= Len(tags) THEN tags[z].min ELSE globalMax(shardKeyPattern)]]

IsGap(range) == KeyLess(range.min, range.max)

\* the gaps the zones leave in the key space, ascending
Gaps == SelectSeq(GapCandidates, IsGap)

InNoZone(chunk) ==
    ~\E z \in 1..Len(tags) :
        KeyLeq(tags[z].min, chunk.min) /\ KeyLeq(chunk.max, tags[z].max)

\* the chunks of the result that lie in no zone, in the order emitted
HoleChunks == SelectSeq(result.chunks, InNoZone)

\* C19: createFirstChunks of a tags-based policy (zones sorted and not
\* overlapping) emits a hole chunk exactly for each gap: before a zone iff
\* the zone's min is above the previous zone's max (globalMin for the first
\* zone), after the last zone iff its max is below globalMax.  The k-th hole
\* chunk of the call (from 0, the trailing one included) is on
\* allShards[k mod |allShards|], whatever zone chunks come between.
C19_HoleChunks ==
    /\ Succeeded
    /\ policy.kind \in {"SingleChunkPerTag", "PresplitHashedZones"}
    => /\ Len(HoleChunks) = Len(Gaps)
       /\ \A k \in 1..Len(Gaps) :
             /\ HoleChunks[k].min = Gaps[k].min
             /\ HoleChunks[k].max = Gaps[k].max
             /\ HoleChunks[k].shard =
                   shuffledShardIds[((k - 1) % Len(shuffledShardIds)) + 1]

\* three holes over two shards: the third hole returns to the first shard of
\* the shuffled order
C19_Witness ==
    /\ Succeeded
    /\ policy.kind \in {"SingleChunkPerTag", "PresplitHashedZones"}
    /\ Len(shuffledShardIds) = 2
    /\ shuffledShardIds # getAllShardIds(shardDocs)
    /\ Len(HoleChunks) = 3
    /\ HoleChunks[3].shard = shuffledShardIds[1]

\* the chunks of the result lying inside a zone, in order
ChunksOfZone(zone) ==
    LET Inside(chunk) == KeyLeq(zone.min, chunk.min) /\ KeyLeq(chunk.max, zone.max)
    IN SelectSeq(result.chunks, Inside)

\* the number of chunks a chunk distribution asks for
RECURSIVE CountsTotal(_)
CountsTotal(chunkDistribution) ==
    IF chunkDistribution = <<>> THEN 0
    ELSE Head(chunkDistribution).count + CountsTotal(Tail(chunkDistribution))

\* C20: the assertion on the split info in createFirstChunks of a tags-based
\* policy never fires: for every zone that has a shard, under
\* SingleChunkPerTag and under a validated PresplitHashedZones policy, the
\* SplitInfo of buildSplitInfoForTag has one split point less than the sum of
\* the counts of its chunk distribution, so that the zone's chunks use every
\* split point and the last of them ends at the zone's max.
C20_SplitInfoConsistent ==
    policy.kind \in {"SingleChunkPerTag", "PresplitHashedZones"} =>
        /\ result.status \notin {"invariant", "undefined"}
        /\ \A z \in 1..Len(policy.tags) :
              policy.tagToShardIds[policy.tags[z].tag] # <<>> =>
                 LET splitInfo == buildSplitInfoForTag(policy, policy.tags[z],
                                                       shardKeyPattern)
                     chunks == ChunksOfZone(policy.tags[z])
                 IN /\ ~splitInfo.ub
                    /\ Len(splitInfo.splitPoints) + 1
                          = CountsTotal(splitInfo.chunkDistribution)
                    /\ Succeeded =>
                          /\ Len(chunks) = Len(splitInfo.splitPoints) + 1
                          /\ chunks[1].min = policy.tags[z].min
                          /\ chunks[Len(chunks)].max = policy.tags[z].max
                          /\ \A i \in 1..Len(splitInfo.splitPoints) :
                                chunks[i].max = splitInfo.splitPoints[i]

\* a presplit zone cut by two split points
C20_Witness ==
    /\ Succeeded
    /\ policy.kind = "PresplitHashedZones"
    /\ \E z \in 1..Len(policy.tags) :
          /\ Len(buildSplitInfoForTag(policy, policy.tags[z],
                                      shardKeyPattern).splitPoints) = 2
          /\ Len(ChunksOfZone(policy.tags[z])) = 3

\* the zone ranges of the input whose tag a shard document carries
ZoneRangesOn(doc) == {z \in 1..Len(tags) : tags[z].tag \in doc.tags}

\* the shard documents that carry the tag of some input zone
DocsWithZoneTag == {d \in 1..Len(shardDocs) : ZoneRangesOn(shardDocs[d]) # {}}

PresplitConstructed ==
    /\ made.op = "PresplitHashedZonesSplitPolicy"
    /\ made.status = "OK"

\* the default of numInitialChunks: twice the number of shards that carry
\* the tag of some zone
DefaultNumInitialChunks ==
    made.numInitialChunks = 0 =>
        policy.numInitialChunks = 2 * Cardinality(DocsWithZoneTag)

\* C21 as stated: after the construction of PresplitHashedZones,
\* numTagsPerShard[s] is the number of distinct tag names among the input
\* zones that shard s carries, also when one tag name owns several zone
\* ranges, and numInitialChunks = 0 defaults to twice the number of shards
\* with such a tag.
C21_NumTagsPerShardDistinctNames ==
    PresplitConstructed =>
        /\ DOMAIN policy.numTagsPerShard = {shardDocs[d].name : d \in DocsWithZoneTag}
        /\ \A d \in DocsWithZoneTag :
              policy.numTagsPerShard[shardDocs[d].name]
                 = Cardinality({tags[z].tag : z \in ZoneRangesOn(shardDocs[d])})
        /\ DefaultNumInitialChunks

\* C21 amended: numTagsPerShard[s] is the number of zone ranges of the input
\* whose tag shard s carries, a tag name counted once for each of its ranges;
\* the default of numInitialChunks is as stated.
C21_NumTagsPerShardZoneRanges ==
    PresplitConstructed =>
        /\ DOMAIN policy.numTagsPerShard = {shardDocs[d].name : d \in DocsWithZoneTag}
        /\ \A d \in DocsWithZoneTag :
              policy.numTagsPerShard[shardDocs[d].name]
                 = Cardinality(ZoneRangesOn(shardDocs[d]))
        /\ DefaultNumInitialChunks

\* one tag name with two zone ranges, counted twice on a shard; the default
\* of numInitialChunks taken
C21_Witness ==
    /\ PresplitConstructed
    /\ made.numInitialChunks = 0
    /\ Len(tags) = 2
    /\ tags[1].tag = tags[2].tag
    /\ Len(shardDocs) = 2
    /\ Cardinality(DocsWithZoneTag) = 1
    /\ \E d \in DocsWithZoneTag : policy.numTagsPerShard[shardDocs[d].name] = 2

\* the documents the pipeline held at the start of the c-th call of getNext
LeftBeforeCall(c) ==
    Len(pipelineSource.documents) - (c - 1) * (pipelineSource.skip + 1)

\* C22: getNext of the sampling wrapper, with skip = samplesPerChunk - 1
\* over a pipeline of N documents in order: each call takes up to
\* samplesPerChunk documents and returns the last one taken; it returns none
\* only when the pipeline was exhausted at the start of the call.  The calls
\* yield the documents at positions samplesPerChunk, 2 * samplesPerChunk, ...
\* and the N-th one when N is no multiple of samplesPerChunk:
\* ceil(N / samplesPerChunk) documents in all.
C22_GetNextYields ==
    pipelineSource.made =>
        LET N == Len(pipelineSource.documents)
            samplesPerChunk == pipelineSource.skip + 1
            calls == Len(pipelineSource.returned)
            taken == IF calls * samplesPerChunk < N THEN calls * samplesPerChunk ELSE N
            yielded == {c \in 1..calls : pipelineSource.returned[c] # <<>>}
        IN /\ pipelineSource.pipeline = SubSeq(pipelineSource.documents, taken + 1, N)
           /\ \A c \in 1..calls :
                 pipelineSource.returned[c] =
                    IF LeftBeforeCall(c) <= 0 THEN <<>>
                    ELSE IF LeftBeforeCall(c) >= samplesPerChunk
                    THEN <<pipelineSource.documents[c * samplesPerChunk]>>
                    ELSE <<pipelineSource.documents[N]>>
           /\ Cardinality(yielded) <= CeilDiv(N, samplesPerChunk)
           /\ calls > CeilDiv(N, samplesPerChunk) =>
                 Cardinality(yielded) = CeilDiv(N, samplesPerChunk)

\* seven documents under samplesPerChunk = 3: the third call takes the one
\* document left and returns it, the fourth returns none
C22_Witness ==
    /\ pipelineSource.made
    /\ pipelineSource.skip = 2
    /\ Len(pipelineSource.documents) % 3 # 0
    /\ Len(pipelineSource.documents) >= 5
    /\ Len(pipelineSource.returned) >= 4
    /\ pipelineSource.returned[3] = <<pipelineSource.documents[Len(pipelineSource.documents)]>>
    /\ pipelineSource.returned[4] = <<>>

\* a chunk of the distribution policy that lies inside some zone
InSomeZone(chunk) ==
    \E z \in 1..Len(policy.zones) :
        /\ KeyLeq(extendRangeBound(shardKeyPattern, policy.zones[z].min), chunk.min)
        /\ KeyLeq(chunk.max, extendRangeBound(shardKeyPattern, policy.zones[z].max))

\* C23: createFirstChunks of the distribution policy with zones succeeds
\* only if every emitted chunk lies inside some zone: when the zones leave a
\* part of the key space uncovered the chunk there has the empty zone name,
\* which no shard carries, and the call fails with InvalidOptions, also when
\* every chunk inside a zone is on a shard of that zone.
C23_UncoveredChunkFails ==
    /\ numCalls > 0
    /\ policy.kind = "ShardDistribution"
    /\ policy.hasZones
    /\ policy.shardDistribution[1].hasMin
    => /\ result.status = "OK" =>
             \A i \in 1..Len(result.chunks) : InSomeZone(result.chunks[i])
       /\ (\E i \in 1..Len(EmittedChunks) : ~InSomeZone(EmittedChunks[i])) =>
             result.status = "InvalidOptions" /\ result.chunks = <<>>

\* a zone that leaves a gap, its chunk on a shard of the zone, and the call
\* failing on the chunk of the gap
C23_Witness ==
    /\ numCalls > 0
    /\ policy.kind = "ShardDistribution"
    /\ policy.hasZones
    /\ policy.shardDistribution[1].hasMin
    /\ ~SomeChunkOffZone
    /\ \E i \in 1..Len(EmittedChunks) : InSomeZone(EmittedChunks[i])
    /\ \E i \in 1..Len(EmittedChunks) : ~InSomeZone(EmittedChunks[i])
    /\ result.status = "InvalidOptions"

\* the chunk boundaries of the next result that are no zone boundary
SampledBoundaries ==
    ChunkBoundaries(result'.chunks)
    \ (SamplingZoneBoundaries
       \cup {globalMin(shardKeyPattern), globalMax(shardKeyPattern)})

\* C24: a createFirstChunks of the sampling policy that succeeds with z
\* distinct zone boundaries (globalMin and globalMax left out) emits
\* max(numInitialChunks, z + 1) chunks.  With z < numInitialChunks - 1 it adds
\* exactly numInitialChunks - 1 - z new distinct keys of the source; with
\* z >= numInitialChunks - 1 it takes nothing from the source and the chunks
\* are cut at the zone boundaries only, more of them than asked for when
\* z + 1 > numInitialChunks.
C24_SamplingChunkCount ==
    [][SamplingBasedCall /\ result'.status = "OK" =>
         LET z == Cardinality(SamplingZoneBoundaries)
             n == policy.numInitialChunks
         IN /\ Len(result'.chunks) = IF n >= z + 1 THEN n ELSE z + 1
            /\ z < n - 1 =>
                  /\ Cardinality(SampledBoundaries) = n - 1 - z
                  /\ SampledBoundaries \subseteq Range(policy.samples)
                  /\ Len(policy'.samples) < Len(policy.samples)
            /\ z >= n - 1 =>
                  /\ policy'.samples = policy.samples
                  /\ SampledBoundaries = {}]_vars

\* two zone boundaries and one chunk asked for: three chunks, no sample taken
C24_Witness ==
    /\ numCalls = 1
    /\ Succeeded
    /\ policy.kind = "SamplingBased"
    /\ policy.numInitialChunks = 1
    /\ Cardinality(SamplingZoneBoundaries) = 2
    /\ Len(result.chunks) = 3
    /\ policy.samples = made.samples
    /\ made.samples # <<>>

====
